---- MODULE Spec2Model ----
(***************************************************************************)
(* Model of classconf.ConfigParser (src/src/classconf/parser.py): schema   *)
(* registration, default synthesis, section lookup and field decoding.     *)
(*                                                                         *)
(* Every Python value (scalar, mapping, dataclass instance) is a "tree": a *)
(* function from key paths to tagged nodes [t, v].  The node at path <<>>  *)
(* is the value itself; a mapping or an instance has one sub-tree per key. *)
(***************************************************************************)
EXTENDS Integers, Sequences, FiniteSets, TLC

(***************************************************************************)
(* Bounds                                                                  *)
(***************************************************************************)
\* largest number of classes passed to one ConfigParser(...) call
MaxArgs == 2
\* largest number of classes passed to one add(...) call
MaxAddArgs == 1
\* add() is explored while the registered list is shorter than this
MaxConfigs == 2
\* largest number of instances passed to one generate_config(...) call
MaxInstances == 2
\* largest number of members of a declared union type
MaxMembers == 3
\* nesting of mappings in the documents get() is stepped through
MaxDocDepth == 2
\* the interpreter's recursion limit, in calls of the recursive functions
MaxDepth == 5

(***************************************************************************)
(* Values                                                                  *)
(***************************************************************************)
IntV(s)  == [t |-> "int",  v |-> s]
StrV(s)  == [t |-> "str",  v |-> s]
BoolV(s) == [t |-> "bool", v |-> s]
PathV(s) == [t |-> "Path", v |-> s]
NoneV    == [t |-> "none", v |-> ""]
MapV     == [t |-> "map",  v |-> ""]
InstV(c) == [t |-> "inst", v |-> c]

\* a scalar as a tree
Leaf(n) == (<<>> :> n)
NoneT == Leaf(NoneV)
EmptyMap == Leaf(MapV)

Root(tree) == tree[<<>>]
IsMapping(tree) == Root(tree).t = "map"

\* `key in mapping`
HasKey(tree, k) == <<k>> \in DOMAIN tree

\* mapping[key]
Sub(tree, k) ==
    LET ps == {p \in DOMAIN tree : Len(p) >= 1 /\ p[1] = k}
    IN  [q \in {Tail(p) : p \in ps} |-> tree[<<k>> \o q]]

\* the tree `sub` re-rooted under key k
Prefixed(k, sub) == [p \in {<<k>> \o q : q \in DOMAIN sub} |-> sub[Tail(p)]]

\* mapping[key] = sub   (replaces whatever was stored under key)
Put(tree, k, sub) ==
    LET keep == {p \in DOMAIN tree : ~(Len(p) >= 1 /\ p[1] = k)}
    IN  Prefixed(k, sub) @@ [p \in keep |-> tree[p]]

\* top-level keys of a mapping
Keys(tree) == {p[1] : p \in {q \in DOMAIN tree : Len(q) = 1}}

\* left | right   (dict union, right wins)
DictUnion(left, right) ==
    LET PutAll[ks \in SUBSET Keys(right)] ==
            IF ks = {} THEN left
            ELSE LET k == CHOOSE x \in ks : TRUE
                 IN  Put(PutAll[ks \ {k}], k, Sub(right, k))
    IN  PutAll[Keys(right)]

(***************************************************************************)
(* Declared field types                                                    *)
(***************************************************************************)
\* a plain annotation T
Ty(name) == [union |-> FALSE, args |-> <<name>>]
\* the annotation T | None
Opt(name) == [union |-> TRUE, args |-> <<name, "NoneType">>]

\* field(...) of a dataclass: identifier, annotation, default
\*   dkind = "value"   : field.default is dval
\*   dkind = "factory" : field.default_factory() returns dval
\*   dkind = "missing" : neither
Fld(id, type, dkind, dval) ==
    [id |-> id, type |-> type, dkind |-> dkind, dval |-> dval]

NoFn == [x \in {} |-> ""]

\* a mapping or instance literal: root node plus one sub-tree per key
Build(rootNode, kv) ==
    LET F[ks \in SUBSET DOMAIN kv] ==
            IF ks = {} THEN Leaf(rootNode)
            ELSE LET k == CHOOSE x \in ks : TRUE
                 IN  Put(F[ks \ {k}], k, kv[k])
    IN  F[DOMAIN kv]

(***************************************************************************)
(* The declared classes.  Each entry is a dataclass together with the      *)
(* arguments of its @configclass decorator (declared = FALSE: a plain      *)
(* @dataclass without the decorator).                                      *)
(***************************************************************************)
Decl(declared, top_level, name, flds, mappings, serializers, deserializers) ==
    [declared |-> declared, top_level |-> top_level, name |-> name,
     fields |-> flds, field_name_mappings |-> mappings,
     field_serializers |-> serializers, field_deserialzers |-> deserializers]

\* ChildConfig(): the value of default_factory=ChildConfig
ChildConfigInstance ==
    Build(InstV("ChildConfig"),
          ("name" :> Leaf(StrV("alpha")) @@ "size" :> Leaf(IntV("2"))))

InvalidConfig ==
    Decl(FALSE, FALSE, "",
         <<Fld("value", Ty("int"), "value", Leaf(IntV("1")))>>, NoFn, NoFn, NoFn)
TopOne ==
    Decl(TRUE, TRUE, "",
         <<Fld("value", Ty("int"), "value", Leaf(IntV("1")))>>, NoFn, NoFn, NoFn)
TopTwo ==
    Decl(TRUE, TRUE, "",
         <<Fld("value", Ty("int"), "value", Leaf(IntV("2")))>>, NoFn, NoFn, NoFn)
AlphaConfig ==
    Decl(TRUE, FALSE, "alpha",
         <<Fld("label", Ty("str"), "value", Leaf(StrV("alpha")))>>, NoFn, NoFn, NoFn)
BetaConfig ==
    Decl(TRUE, FALSE, "beta",
         <<Fld("count", Ty("int"), "value", Leaf(IntV("5")))>>, NoFn, NoFn, NoFn)
DefaultNested ==
    Decl(TRUE, FALSE, "",
         <<Fld("value", Ty("str"), "value", Leaf(StrV("value")))>>, NoFn, NoFn, NoFn)
ParentDefaultConfig ==
    Decl(TRUE, TRUE, "",
         <<Fld("nested", Ty("DefaultNested"), "factory",
               Build(InstV("DefaultNested"), ("value" :> Leaf(StrV("value")))))>>,
         NoFn, NoFn, NoFn)
NamedNested ==
    Decl(TRUE, FALSE, "nested",
         <<Fld("value", Ty("str"), "value", Leaf(StrV("value")))>>, NoFn, NoFn, NoFn)
ParentConfig ==
    Decl(TRUE, TRUE, "",
         <<Fld("nested", Opt("NamedNested"), "missing", NoneT)>>,
         NoFn, NoFn, NoFn)
RequiredConfig ==
    Decl(TRUE, FALSE, "app",
         <<Fld("count", Ty("int"), "missing", NoneT),
           Fld("label", Ty("str"), "missing", NoneT)>>, NoFn, NoFn, NoFn)
MetricsConfig ==
    Decl(TRUE, FALSE, "metrics",
         <<Fld("count", Ty("int"), "value", Leaf(IntV("3")))>>,
         ("count" :> "count_value"), ("count" :> "serialize_count"), NoFn)
ChildConfig ==
    Decl(TRUE, FALSE, "child",
         <<Fld("name", Ty("str"), "value", Leaf(StrV("alpha"))),
           Fld("size", Ty("int"), "value", Leaf(IntV("2")))>>, NoFn, NoFn, NoFn)
RefParent ==
    Decl(TRUE, TRUE, "",
         <<Fld("child", Ty("Child"), "factory", ChildConfigInstance)>>,
         NoFn, ("child" :> "serialize_child"), ("child" :> "resolve_child"))
\* the MetricsConfig of test_deserializers_without_parser_json
NumMetricsConfig ==
    Decl(TRUE, FALSE, "metrics",
         <<Fld("count", Ty("int"), "missing", NoneT)>>,
         NoFn, NoFn, ("count" :> "deserialize_num"))
\* the ExampleConfig of test_metadata_is_attached
ExampleConfig ==
    Decl(TRUE, TRUE, "app",
         <<Fld("count", Ty("int"), "value", Leaf(IntV("1")))>>,
         ("count" :> "count_value"), ("count" :> "serialize_str"),
         ("count" :> "deserialize_count"))
\* a schema whose decoders have the other signatures wants_parser tells apart
SignaturesConfig ==
    Decl(TRUE, FALSE, "signatures",
         <<Fld("size", Ty("int"), "value", Leaf(IntV("3"))),
           Fld("first", Ty("str"), "value", Leaf(StrV("alpha"))),
           Fld("label", Ty("str"), "value", Leaf(StrV("alpha")))>>,
         NoFn, NoFn,
         ("size" :> "int" @@ "first" :> "first_of" @@ "label" :> "keep"))
\* the ParentConfig of test_deserializers_using_parser_with_abc_child
MappedRefParent ==
    Decl(TRUE, TRUE, "",
         <<Fld("child", Ty("Child"), "factory", ChildConfigInstance)>>,
         ("child" :> "child_ref"), ("child" :> "serialize_child"),
         ("child" :> "resolve_child"))

\* Path("./out"): pathlib keeps the normal form "out"
PathsConfig ==
    Decl(TRUE, FALSE, "",
         <<Fld("output_dir", Ty("Path"), "value", Leaf(PathV("out")))>>,
         NoFn, NoFn, NoFn)
FlagsConfig ==
    Decl(TRUE, FALSE, "",
         <<Fld("retries", Ty("int"), "value", Leaf(IntV("3"))),
           Fld("verbose", Ty("bool"), "value", Leaf(BoolV("False")))>>,
         NoFn, NoFn, NoFn)
AppConfig ==
    Decl(TRUE, TRUE, "",
         <<Fld("name", Ty("str"), "value", Leaf(StrV("demo"))),
           Fld("paths", Ty("PathsConfig"), "factory",
               Build(InstV("PathsConfig"), ("output_dir" :> Leaf(PathV("out"))))),
           Fld("flags", Ty("FlagsConfig"), "factory",
               Build(InstV("FlagsConfig"),
                     ("retries" :> Leaf(IntV("3")) @@
                      "verbose" :> Leaf(BoolV("False")))))>>,
         NoFn, NoFn, NoFn)
\* the AlphaConfig of test_union_type_field
UnionAlphaConfig ==
    Decl(TRUE, FALSE, "alpha",
         <<Fld("label", Opt("str"), "value", NoneT)>>, NoFn, NoFn, NoFn)

ClassNames ==
    {"PathsConfig", "FlagsConfig", "AppConfig", "UnionAlphaConfig",
     "MappedRefParent", "NumMetricsConfig", "ExampleConfig", "SignaturesConfig",
     "InvalidConfig", "TopOne", "TopTwo", "AlphaConfig", "BetaConfig",
     "DefaultNested", "ParentDefaultConfig", "NamedNested", "ParentConfig",
     "RequiredConfig", "MetricsConfig", "ChildConfig", "RefParent"}

\* the class object of a class name
Class(c) ==
    CASE c = "InvalidConfig" -> InvalidConfig
      [] c = "TopOne" -> TopOne
      [] c = "TopTwo" -> TopTwo
      [] c = "AlphaConfig" -> AlphaConfig
      [] c = "BetaConfig" -> BetaConfig
      [] c = "DefaultNested" -> DefaultNested
      [] c = "ParentDefaultConfig" -> ParentDefaultConfig
      [] c = "NamedNested" -> NamedNested
      [] c = "ParentConfig" -> ParentConfig
      [] c = "RequiredConfig" -> RequiredConfig
      [] c = "MetricsConfig" -> MetricsConfig
      [] c = "ChildConfig" -> ChildConfig
      [] c = "RefParent" -> RefParent
      [] c = "MappedRefParent" -> MappedRefParent
      [] c = "NumMetricsConfig" -> NumMetricsConfig
      [] c = "ExampleConfig" -> ExampleConfig
      [] c = "SignaturesConfig" -> SignaturesConfig
      [] c = "PathsConfig" -> PathsConfig
      [] c = "FlagsConfig" -> FlagsConfig
      [] c = "AppConfig" -> AppConfig
      [] c = "UnionAlphaConfig" -> UnionAlphaConfig

\* fields(cls)
Fields(c) == Class(c).fields

\* ConfigSpec(...) built by _apply_config from the decorator's arguments
ConfigSpec(c, d) ==
    [top_level |-> d.top_level,
     name |-> IF d.name = "" THEN c ELSE d.name,
     field_mappings |-> d.field_name_mappings,
     field_deserialzers |-> d.field_deserialzers,
     field_serializers |-> d.field_serializers]

\* cls.__config__ as attached by the decorator: name falls back to __name__
ApplyConfig(c) == ConfigSpec(c, Class(c))

\* is_dataclass(tp) for a type name
IsDataclass(tp) == tp \in ClassNames

\* is_configclass_type(tp): a dataclass that carries __config__
IsConfigclassType(tp) == IsDataclass(tp) /\ Class(tp).declared

\* the first member of a union that is not NoneType, the union itself when
\* there is none
FirstConcrete(field_type, type_args) ==
    IF type_args # <<>> THEN [union |-> FALSE, args |-> <<type_args[1]>>]
    ELSE field_type

\* _unwrap_optional: for a union, the first member that is not NoneType
UnwrapOptional(field_type) ==
    IF field_type.union
    THEN FirstConcrete(field_type,
                       SelectSeq(field_type.args, LAMBDA a : a # "NoneType"))
    ELSE field_type

\* the class named by an unwrapped annotation, "" when it is a union
TypeName(field_type) == IF field_type.union THEN "" ELSE field_type.args[1]

\* mapping.get(key, key)
GetOrSelf(m, key) == IF key \in DOMAIN m THEN m[key] ELSE key

\* the document key of a field taken to be the field's own identifier
FieldKeyOwnName(c, f) == f.id

\* field_mappings.get(field.name, field.name)
FieldKey(c, f) == GetOrSelf(ApplyConfig(c).field_mappings, f.id)

(***************************************************************************)
(* Sorting key of _add_configs: (0 if top_level else 1, name.casefold())   *)
(***************************************************************************)
\* the code points of the section names in use
CodePoints(s) ==
    CASE s = "TopOne" -> <<84, 111, 112, 79, 110, 101>>
      [] s = "TopTwo" -> <<84, 111, 112, 84, 119, 111>>
      [] s = "alpha" -> <<97, 108, 112, 104, 97>>
      [] s = "beta" -> <<98, 101, 116, 97>>
      [] s = "DefaultNested" ->
            <<68, 101, 102, 97, 117, 108, 116, 78, 101, 115, 116, 101, 100>>
      [] s = "ParentDefaultConfig" ->
            <<80, 97, 114, 101, 110, 116, 68, 101, 102, 97, 117, 108, 116,
              67, 111, 110, 102, 105, 103>>
      [] s = "nested" -> <<110, 101, 115, 116, 101, 100>>
      [] s = "ParentConfig" ->
            <<80, 97, 114, 101, 110, 116, 67, 111, 110, 102, 105, 103>>
      [] s = "app" -> <<97, 112, 112>>
      [] s = "metrics" -> <<109, 101, 116, 114, 105, 99, 115>>
      [] s = "RefParent" -> <<82, 101, 102, 80, 97, 114, 101, 110, 116>>
      [] s = "child" -> <<99, 104, 105, 108, 100>>
      [] s = "MappedRefParent" -> <<77, 97, 112, 112, 101, 100, 82, 101, 102, 80, 97, 114, 101, 110, 116>>
      [] s = "PathsConfig" -> <<80, 97, 116, 104, 115, 67, 111, 110, 102, 105, 103>>
      [] s = "FlagsConfig" -> <<70, 108, 97, 103, 115, 67, 111, 110, 102, 105, 103>>
      [] s = "AppConfig" -> <<65, 112, 112, 67, 111, 110, 102, 105, 103>>

\* str.casefold on ASCII: A..Z become a..z
Casefold(cps) ==
    [i \in 1..Len(cps) |-> IF cps[i] >= 65 /\ cps[i] <= 90 THEN cps[i] + 32 ELSE cps[i]]

\* a < b for strings given as code points
RECURSIVE LexLess(_, _)
LexLess(a, b) ==
    IF b = <<>> THEN FALSE
    ELSE IF a = <<>> THEN TRUE
    ELSE IF a[1] # b[1] THEN a[1] < b[1]
    ELSE LexLess(Tail(a), Tail(b))

\* cls.__config__.name.casefold()
FoldedName(spec) == Casefold(CodePoints(spec.name))

\* the sort key of a class with __config__ spec
KeyOf(spec) ==
    [flag |-> IF spec.top_level THEN 0 ELSE 1, name |-> FoldedName(spec)]

\* the sort key of a class
SortKey(c) == KeyOf(ApplyConfig(c))

\* tuple comparison of two sort keys
TupleLess(ka, kb) ==
    \/ ka.flag < kb.flag
    \/ ka.flag = kb.flag /\ LexLess(ka.name, kb.name)

KeyLess(a, b) == TupleLess(SortKey(a), SortKey(b))

\* rest with x placed after its first n elements
Inserted(rest, x, n) ==
    SubSeq(rest, 1, n) \o <<x>> \o SubSeq(rest, n + 1, Len(rest))

\* x goes after every element of the sorted list whose key is not greater
\* than its own
InsertSorted(rest, x) ==
    Inserted(rest, x, Cardinality({i \in 1..Len(rest) : ~KeyLess(x, rest[i])}))

\* sorted(configs, key=...): stable, so equal keys keep their input order
RECURSIVE Sorted(_)
Sorted(cs) ==
    IF cs = <<>> THEN <<>>
    ELSE InsertSorted(Sorted(SubSeq(cs, 1, Len(cs) - 1)), cs[Len(cs)])

(***************************************************************************)
(* Outcomes of an operation: a value or a raised exception                 *)
(***************************************************************************)
Outcome(kind, what, schema, key, names, val) ==
    [kind |-> kind, what |-> what, schema |-> schema, key |-> key,
     names |-> names, val |-> val]

Ok(val) == Outcome("ok", "", "", "", <<>>, val)
Raise(kind, what, schema, key) == Outcome(kind, what, schema, key, <<>>, NoneT)
RaiseNames(kind, names) == Outcome(kind, "", "", "", names, NoneT)
NoOutcome == Outcome("none", "", "", "", <<>>, NoneT)

(***************************************************************************)
(* ConfigParser._add_configs                                               *)
(***************************************************************************)
\* the two raises of _add_configs, given the lists its loop collected
Validated(invalid_configs, toplevel_configs) ==
    IF invalid_configs # <<>>
    THEN RaiseNames("InvalidConfigClassError", invalid_configs)
    ELSE IF Len(toplevel_configs) > 1
    THEN RaiseNames("MultipleTopLevelConfigError", toplevel_configs)
    ELSE Ok(NoneT)

\* _add_configs without the top-level count
AddConfigsNoRootCheck(cs) ==
    Validated(SelectSeq(cs, LAMBDA c : ~IsConfigclassType(c)), <<>>)

\* the outcome of _add_configs(*cs); on success val is unused and the new
\* self._configs is Sorted(cs)
AddConfigs(cs) ==
    Validated(SelectSeq(cs, LAMBDA c : ~IsConfigclassType(c)),
              SelectSeq(cs, LAMBDA c : IsConfigclassType(c) /\ ApplyConfig(c).top_level))

(***************************************************************************)
(* Default synthesis                                                       *)
(***************************************************************************)
\* str(value) of a scalar
StrOf(node) == IF node.t = "none" THEN "None" ELSE node.v

\* the custom encoders registered in field_serializers
\*   serialize_count(value) = f"{value}x"
\*   serialize_child(child) = child.name
ApplySerializer(fn, value) ==
    CASE fn = "serialize_count" -> Leaf(StrV(StrOf(Root(value)) \o "x"))
      [] fn = "serialize_child" -> Sub(value, "name")
      [] fn = "serialize_str" -> Leaf(StrV(StrOf(Root(value))))

\* _serialize_field_value that never looks at field_serializers
SerializeFieldValueNoEncoder(value, field_name, field_serializers) ==
    IF Root(value).t = "Path"
    THEN Leaf(StrV(Root(value).v))
    ELSE value

\* _serialize_field_value
SerializeFieldValue(value, field_name, field_serializers) ==
    IF field_name \in DOMAIN field_serializers
    THEN ApplySerializer(field_serializers[field_name], value)
    ELSE IF Root(value).t = "Path"
    THEN Leaf(StrV(Root(value).v))
    ELSE value

RECURSIVE GetClassFields(_)

\* _get_field_default_value that never synthesizes a nested class
GetFieldDefaultValueNoRecursion(field, field_type) ==
    IF field.dkind = "value" THEN field.dval
    ELSE IF field.dkind = "factory" THEN field.dval
    ELSE NoneT

\* _get_field_default_value asking the default factory before the field type
GetFieldDefaultValueFactoryFirst(field, field_type) ==
    IF field.dkind = "value" THEN field.dval
    ELSE IF field.dkind = "factory" THEN field.dval
    ELSE IF IsDataclass(TypeName(field_type)) THEN GetClassFields(TypeName(field_type))
    ELSE NoneT

\* _get_field_default_value
GetFieldDefaultValue(field, field_type) ==
    IF field.dkind = "value" THEN field.dval
    ELSE IF IsDataclass(TypeName(field_type)) THEN GetClassFields(TypeName(field_type))
    ELSE IF field.dkind = "factory" THEN field.dval
    ELSE NoneT

\* one turn of the loop of _get_class_fields: the field's encoded default
\* stored under its mapped key
ClassDataWith(class_data, config_class, field, field_type) ==
    Put(class_data, FieldKey(config_class, field),
        SerializeFieldValue(GetFieldDefaultValue(field, field_type), field.id,
                            ApplyConfig(config_class).field_serializers))

\* the loop of _get_class_fields over the fields fs, in declaration order
ClassDataOver(config_class, fs) ==
    LET class_data[n \in 0..Len(fs)] ==
            IF n = 0 THEN EmptyMap
            ELSE ClassDataWith(class_data[n - 1], config_class, fs[n],
                               UnwrapOptional(fs[n].type))
    IN  class_data[Len(fs)]

\* _get_class_fields: the mapping of a class's encoded defaults, built field
\* by field in declaration order
GetClassFields(config_class) == ClassDataOver(config_class, Fields(config_class))

\* the configclass types among the field types tps
ConfigclassTypes(tps) ==
    {TypeName(tps[i]) : i \in {j \in 1..Len(tps) : IsConfigclassType(TypeName(tps[j]))}}

\* the annotations of a class's fields as written
FieldTypes(fs) == [i \in 1..Len(fs) |-> fs[i].type]

\* the annotations of a class's fields after _unwrap_optional
UnwrappedFieldTypes(fs) == [i \in 1..Len(fs) |-> UnwrapOptional(fs[i].type)]

\* the loop of _get_root_configs looking at the annotations as written
RECURSIVE NestedConfigsNoUnwrap(_, _)
NestedConfigsNoUnwrap(cfgs, n) ==
    IF n = 0 THEN {}
    ELSE NestedConfigsNoUnwrap(cfgs, n - 1) \cup
         ConfigclassTypes(FieldTypes(Fields(cfgs[n])))

\* the loop of _get_root_configs: the configclass types met as unwrapped
\* field types of the first n registered classes
RECURSIVE NestedConfigs(_, _)
NestedConfigs(cfgs, n) ==
    IF n = 0 THEN {}
    ELSE NestedConfigs(cfgs, n - 1) \cup
         ConfigclassTypes(UnwrappedFieldTypes(Fields(cfgs[n])))

\* the registered classes that are not in nested_configs
NotNested(cfgs, nested_configs) ==
    SelectSeq(cfgs, LAMBDA c : c \notin nested_configs)

\* _get_root_configs
GetRootConfigs(cfgs) == NotNested(cfgs, NestedConfigs(cfgs, Len(cfgs)))

\* one turn of the loop that stores every class under its name, top-level
\* or not
ConfigDataWithNeverMerged(config_data, spec, config_class_data) ==
    Put(config_data, spec.name, config_class_data)

\* one turn of the loop of _create_default_config: a top-level class is
\* merged into the document, any other is stored under its name
ConfigDataWith(config_data, spec, config_class_data) ==
    IF spec.top_level
    THEN DictUnion(config_data, config_class_data)
    ELSE Put(config_data, spec.name, config_class_data)

\* the loop of _create_default_config over the root classes
ConfigDataOver(roots) ==
    LET config_data[n \in 0..Len(roots)] ==
            IF n = 0 THEN EmptyMap
            ELSE ConfigDataWith(config_data[n - 1], ApplyConfig(roots[n]),
                                GetClassFields(roots[n]))
    IN  config_data[Len(roots)]

\* the document built by _create_default_config (before it is written)
CreateDefaultConfig(cfgs) == ConfigDataOver(GetRootConfigs(cfgs))

(***************************************************************************)
(* Decoding                                                                *)
(***************************************************************************)
\* int(s) for the strings in use: the canonical decimal, "" when int(s)
\* raises ValueError
IntOfStr(s) ==
    CASE s \in {"0", "1", "2", "3", "5", "8"} -> s
      [] s = "03" -> "3"
      [] OTHER -> ""

\* str(Path(s)): pathlib drops a leading "./"
PathNorm(s) == IF s = "./out" THEN "out" ELSE s

\* isinstance(field_type, type): the annotation is a class, not a union
IsType(field_type) == ~field_type.union

\* isinstance(value, tp) for the builtin types (bool is a subclass of int)
IsInstance(value, tp) ==
    CASE tp = "int" -> Root(value).t \in {"int", "bool"}
      [] tp = "str" -> Root(value).t = "str"
      [] tp = "bool" -> Root(value).t = "bool"
      [] tp = "Path" -> Root(value).t = "Path"
      [] OTHER -> Root(value).t = "inst" /\ Root(value).v = tp

\* tp(value): the single-argument constructor call
Coerce(tp, value) ==
    LET node == Root(value)
    IN  CASE tp = "int" ->
                IF node.t = "str"
                THEN IF IntOfStr(node.v) # "" THEN Ok(Leaf(IntV(IntOfStr(node.v))))
                     ELSE Raise("ValueError", "coercion", tp, "")
                ELSE Raise("TypeError", "coercion", tp, "")
          [] tp = "str" ->
                IF node.t \in {"map", "inst"} THEN Ok(Leaf(StrV("<repr>")))
                ELSE Ok(Leaf(StrV(StrOf(node))))
          [] tp = "bool" ->
                Ok(Leaf(BoolV(IF \/ node.t = "str" /\ node.v = ""
                                 \/ node.t = "int" /\ node.v = "0"
                                 \/ node.t = "map" /\ Keys(value) = {}
                              THEN "False" ELSE "True")))
          [] tp = "Path" ->
                IF node.t = "str" THEN Ok(Leaf(PathV(PathNorm(node.v))))
                ELSE Raise("TypeError", "coercion", tp, "")
          [] OTHER -> Raise("TypeError", "coercion", tp, "")

\* signatures of the custom decoders registered in field_deserialzers, as
\* inspect.signature reports them: the kinds of the parameters in order
\*   resolve_child(_, parser)          deserialize_num(value, **_)
\*   deserialize_count(value)          int  (a builtin: no signature found)
\*   first_of(*args)                   keep(value, *, strict=False)
DeserializerSignature(d) ==
    CASE d = "resolve_child" ->
            [inspectable |-> TRUE,
             params |-> <<"POSITIONAL_OR_KEYWORD", "POSITIONAL_OR_KEYWORD">>]
      [] d = "deserialize_num" ->
            [inspectable |-> TRUE,
             params |-> <<"POSITIONAL_OR_KEYWORD", "VAR_KEYWORD">>]
      [] d = "deserialize_count" ->
            [inspectable |-> TRUE, params |-> <<"POSITIONAL_OR_KEYWORD">>]
      [] d = "int" -> [inspectable |-> FALSE, params |-> <<>>]
      [] d = "first_of" ->
            [inspectable |-> TRUE, params |-> <<"VAR_POSITIONAL">>]
      [] d = "keep" ->
            [inspectable |-> TRUE,
             params |-> <<"POSITIONAL_OR_KEYWORD", "KEYWORD_ONLY">>]

\* the list `positional` of wants_parser
Positional(params) ==
    SelectSeq(params,
              LAMBDA p : p \in {"POSITIONAL_ONLY", "POSITIONAL_OR_KEYWORD"})

\* has_varargs of wants_parser
HasVarargs(params) == \E n \in 1..Len(params) : params[n] = "VAR_POSITIONAL"

\* wants_parser that is true of every decoder
WantsParserAlways(d) == TRUE

\* wants_parser
WantsParser(d) ==
    IF ~DeserializerSignature(d).inspectable THEN TRUE
    ELSE \/ HasVarargs(DeserializerSignature(d).params)
         \/ Len(Positional(DeserializerSignature(d).params)) >= 2

\* a call of a decoder: d(value, parser) when parser is true, else d(value)
DeserializerCall(d, value, parser) == [fn |-> d, value |-> value, parser |-> parser]

NoCall == DeserializerCall("", NoneT, FALSE)

\* the decoder can bind the positional arguments of the call
Binds(sig, nargs) ==
    \/ ~sig.inspectable
    \/ /\ Len(Positional(sig.params)) <= nargs
       /\ HasVarargs(sig.params) \/ nargs <= Len(Positional(sig.params))

\* value.rstrip("x")
RStripX(s) == IF s = "8x" THEN "8" ELSE IF s = "3x" THEN "3" ELSE s

\* int(value) of a raw value
IntOf(value) ==
    IF Root(value).t = "int" THEN Ok(value)
    ELSE IF Root(value).t = "bool"
    THEN Ok(Leaf(IntV(IF Root(value).v = "True" THEN "1" ELSE "0")))
    ELSE Coerce("int", value)

\* `key in section_data` for a string section: substring test.  No key in
\* use is a proper substring of a string value in use.
StrContains(s, key) == s = key

RECURSIVE ParseConfig(_, _, _, _)
RECURSIVE Get(_, _, _)

\* what the decoder of a call returns or raises
\*   resolve_child: parser.get(ChildConfig)
\*   deserialize_num: int(value.rstrip("x"))     deserialize_count: int(value)
\*   int: int(value, parser)                     first_of, keep: the value
CallDeserializer(call, cfgs, doc) ==
    IF ~Binds(DeserializerSignature(call.fn), IF call.parser THEN 2 ELSE 1)
    THEN Raise("TypeError", "arguments", call.fn, "")
    ELSE CASE call.fn = "resolve_child" -> Get("ChildConfig", cfgs, doc)
           [] call.fn = "deserialize_num" ->
                 IF Root(call.value).t # "str"
                 THEN Raise("AttributeError", "rstrip", call.fn, "")
                 ELSE Coerce("int", Leaf(StrV(RStripX(Root(call.value).v))))
           [] call.fn = "deserialize_count" -> IntOf(call.value)
           [] call.fn = "int" ->
                 IF call.parser THEN Raise("TypeError", "coercion", "int", "")
                 ELSE IntOf(call.value)
           [] OTHER -> Ok(call.value)

\* the call apply_deserializer makes: d(value, parser) when wants_parser(d)
AppliedCall(d, value) == DeserializerCall(d, value, WantsParser(d))

\* apply_deserializer: the decoder gets the parser when wants_parser says so
ApplyDeserializer(d, value, cfgs, doc) ==
    CallDeserializer(AppliedCall(d, value), cfgs, doc)

\* the decoder call made for a field of _parse_config, if any
FieldCall(field, field_deserializers, raw) ==
    IF field.id \in DOMAIN field_deserializers
    THEN AppliedCall(field_deserializers[field.id], raw)
    ELSE NoCall

\* _convert_field_value without the early return for None
ConvertFieldValueCoercesNone(value, field_type, cfgs, doc) ==
    IF IsDataclass(TypeName(field_type))
    THEN ParseConfig(TypeName(field_type), value, cfgs, doc)
    ELSE IF IsType(field_type) /\ ~IsInstance(value, TypeName(field_type))
    THEN Coerce(TypeName(field_type), value)
    ELSE Ok(value)

\* _convert_field_value
ConvertFieldValue(value, field_type, cfgs, doc) ==
    IF Root(value).t = "none" THEN Ok(NoneT)
    ELSE IF IsDataclass(TypeName(field_type))
    THEN ParseConfig(TypeName(field_type), value, cfgs, doc)
    ELSE IF IsType(field_type) /\ ~IsInstance(value, TypeName(field_type))
    THEN Coerce(TypeName(field_type), value)
    ELSE Ok(value)

\* kwargs[field.name] = value, or the exception the decoding of value raised
Stored(kwargs, field, value) ==
    IF value.kind # "ok" THEN value
    ELSE Ok(Put(kwargs.val, field.id, value.val))

\* the decoding of one raw value that never calls a custom decoder
DecodeFieldIgnoresDecoder(field, field_deserializers, raw, cfgs, doc) ==
    ConvertFieldValue(raw, UnwrapOptional(field.type), cfgs, doc)

\* the decoding of one raw value: the field's custom decoder when it has
\* one, _convert_field_value on the unwrapped annotation otherwise
DecodeField(field, field_deserializers, raw, cfgs, doc) ==
    IF field.id \in DOMAIN field_deserializers
    THEN ApplyDeserializer(field_deserializers[field.id], raw, cfgs, doc)
    ELSE ConvertFieldValue(raw, UnwrapOptional(field.type), cfgs, doc)

\* one turn of the loop that skips a field whose key is absent
ParseFieldSkipsMissing(kwargs, config_class, field, key, section_data, cfgs, doc) ==
    IF kwargs.kind # "ok" THEN kwargs
    ELSE IF Root(section_data).t # "map"
    THEN Raise("TypeError", "not_iterable", config_class, key)
    ELSE IF ~HasKey(section_data, key)
    THEN Ok(Put(kwargs.val, field.id, field.dval))
    ELSE Stored(kwargs, field,
                DecodeField(field, ApplyConfig(config_class).field_deserialzers,
                            Sub(section_data, key), cfgs, doc))

\* one turn of the loop of _parse_config: `key not in section_data` raises
\* KeyError, the decoded value goes into kwargs; nothing runs after a raise
ParseField(kwargs, config_class, field, key, section_data, cfgs, doc) ==
    IF kwargs.kind # "ok" THEN kwargs
    ELSE IF Root(section_data).t \notin {"map", "str"}
    THEN Raise("TypeError", "not_iterable", config_class, key)
    ELSE IF Root(section_data).t = "str" /\ StrContains(Root(section_data).v, key)
    THEN Raise("TypeError", "str_index", config_class, key)
    ELSE IF Root(section_data).t = "str" \/ ~HasKey(section_data, key)
    THEN Raise("KeyError", "missing_key", config_class, key)
    ELSE Stored(kwargs, field,
                DecodeField(field, ApplyConfig(config_class).field_deserialzers,
                            Sub(section_data, key), cfgs, doc))

\* _parse_config that skips a field whose key is absent and lets the
\* dataclass default fill it in
ParseConfigSkipsMissing(config_class, section_data, cfgs, doc) ==
    LET fs == Fields(config_class)
        kwargs[n \in 0..Len(fs)] ==
            IF n = 0 THEN Ok(Leaf(InstV(config_class)))
            ELSE ParseFieldSkipsMissing(kwargs[n - 1], config_class, fs[n],
                                        FieldKey(config_class, fs[n]),
                                        section_data, cfgs, doc)
    IN  kwargs[Len(fs)]

\* _parse_config: decode the fields in declaration order; the first failure
\* ends the call
ParseConfig(config_class, section_data, cfgs, doc) ==
    LET fs == Fields(config_class)
        kwargs[n \in 0..Len(fs)] ==
            IF n = 0 THEN Ok(Leaf(InstV(config_class)))
            ELSE ParseField(kwargs[n - 1], config_class, fs[n],
                            FieldKey(config_class, fs[n]),
                            section_data, cfgs, doc)
    IN  kwargs[Len(fs)]

\* the index of the first occurrence test `config_class in self._configs`
Registered(config_class, cfgs) == \E i \in 1..Len(cfgs) : cfgs[i] = config_class

\* the else branch of get: the class is looked up under its section name
GetSection(config_class, section_name, cfgs, doc) ==
    IF ~HasKey(doc, section_name)
    THEN Raise("KeyError", "missing_section", config_class, section_name)
    ELSE ParseConfig(config_class, Sub(doc, section_name), cfgs, doc)

\* get past the registration test: the whole document for a top-level
\* class, its section for any other
GetRegistered(config_class, spec, cfgs, doc) ==
    IF spec.top_level
    THEN ParseConfig(config_class, doc, cfgs, doc)
    ELSE GetSection(config_class, spec.name, cfgs, doc)

\* get that accepts only the classes the classifier returns as roots
GetRootsOnly(config_class, cfgs, doc) ==
    IF ~Registered(config_class, GetRootConfigs(cfgs))
    THEN Raise("ValueError", "unregistered", config_class, "")
    ELSE GetRegistered(config_class, ApplyConfig(config_class), cfgs, doc)

\* get that looks every class up by its section name, root or not
GetAlwaysSection(config_class, cfgs, doc) ==
    IF ~Registered(config_class, cfgs)
    THEN Raise("ValueError", "unregistered", config_class, "")
    ELSE GetSection(config_class, ApplyConfig(config_class).name, cfgs, doc)

\* get without the registration test
GetNoRegistrationCheck(config_class, cfgs, doc) ==
    GetRegistered(config_class, ApplyConfig(config_class), cfgs, doc)

\* ConfigParser.get on a parser whose _configs is cfgs and _config is doc
Get(config_class, cfgs, doc) ==
    IF ~Registered(config_class, cfgs)
    THEN Raise("ValueError", "unregistered", config_class, "")
    ELSE GetRegistered(config_class, ApplyConfig(config_class), cfgs, doc)

(***************************************************************************)
(* The file and the format adapter                                         *)
(***************************************************************************)
\* the path holds no file
Absent == Leaf([t |-> "absent", v |-> ""])

\* JSONFormat.read: None (here Absent) when the path does not exist
FormatRead(f) == f

\* JSONFormat.write: the file now holds the document
FormatWrite(f, data) == data

\* documents a file may hold before the parser is constructed
Doc1 ==
    Build(MapV,
          ("alpha" :> Build(MapV, ("label" :> Leaf(StrV("alpha")))) @@
           "beta" :> Build(MapV, ("count" :> Leaf(StrV("03")))) @@
           "value" :> Leaf(IntV("1")) @@
           "nested" :> Build(MapV, ("value" :> Leaf(StrV("value")))) @@
           "app" :> Build(MapV, ("count" :> Leaf(IntV("1")))) @@
           "metrics" :> Build(MapV, ("count_value" :> Leaf(IntV("8")) @@
                                     "count" :> Leaf(IntV("1"))))))
Doc2 ==
    Build(MapV,
          ("app" :> Build(MapV, ("count" :> Leaf(StrV("abc")))) @@
           "alpha" :> EmptyMap @@
           "child" :> Build(MapV, ("name" :> Leaf(StrV("alpha")) @@
                                   "size" :> Leaf(StrV("2")))) @@
           "metrics" :> Build(MapV, ("count" :> Leaf(IntV("8")))) @@
           "nested" :> NoneT @@
           "child_ref" :> Leaf(IntV("8")) @@
           "DefaultNested" :> Leaf(IntV("5"))))
Doc3 == EmptyMap

InitialFiles == {Absent, Doc1, Doc2, Doc3}

(***************************************************************************)
(* ConfigParser.__init__                                                   *)
(***************************************************************************)
\* what a constructor call leaves behind: its outcome, the attributes of the
\* new parser, the file, and the number of adapter reads and writes it made
Built(out, cfgs, doc, f, r, w) ==
    [out |-> out, configs |-> cfgs, document |-> doc, file |-> f,
     reads |-> r, writes |-> w]

\* _create_default_config: the synthesized document becomes self._config and
\* is written to the file
Synthesized(cfgs, f, defaults) ==
    Built(Ok(NoneT), cfgs, defaults, FormatWrite(f, defaults), 1, 1)

\* _read_config after the adapter returned config_data
Loaded(cfgs, f, config_data) ==
    IF config_data = Absent
    THEN Synthesized(cfgs, f, CreateDefaultConfig(cfgs))
    ELSE Built(Ok(NoneT), cfgs, config_data, f, 1, 0)

\* _read_config after the adapter returned config_data, writing back
\* whatever it returned
LoadedAlwaysWrites(cfgs, f, config_data) ==
    IF config_data = Absent
    THEN Synthesized(cfgs, f, CreateDefaultConfig(cfgs))
    ELSE Built(Ok(NoneT), cfgs, config_data, FormatWrite(f, config_data), 1, 1)

\* _read_config that writes the document back whatever the read found
ReadConfigAlwaysWrites(cfgs, f) == LoadedAlwaysWrites(cfgs, f, FormatRead(f))

\* _read_config with _create_default_config: one read, and one write when
\* the read found no file
ReadConfig(cfgs, f) == Loaded(cfgs, f, FormatRead(f))

\* __init__ from _add_configs on: its raise ends the constructor before any
\* adapter call, otherwise _read_config runs on the sorted classes
Registering(registered, args, f) ==
    IF registered.kind # "ok"
    THEN Built(registered, <<>>, EmptyMap, f, 0, 0)
    ELSE ReadConfig(Sorted(args), f)

\* the raise of _add_configs coming after the document was loaded
ValidatedLate(registered, loaded) ==
    IF registered.kind # "ok"
    THEN Built(registered, <<>>, EmptyMap, loaded.file, loaded.reads, loaded.writes)
    ELSE loaded

\* __init__ without the early existence test
ParserInitNoExistCheck(args, create_noexist, f) ==
    Registering(AddConfigs(args), args, f)

\* __init__ that loads or synthesizes the document before it validates the
\* supplied classes
ParserInitValidatesLate(args, create_noexist, f) ==
    IF ~create_noexist /\ f = Absent
    THEN Built(Raise("FileNotFoundError", "", "", ""), <<>>, EmptyMap, f, 0, 0)
    ELSE ValidatedLate(AddConfigs(args),
                       ReadConfig(Sorted(SelectSeq(args, LAMBDA c : IsConfigclassType(c))), f))

\* __init__(config_path, *configs, create_noexist=..., format=JSONFormat())
ParserInit(args, create_noexist, f) ==
    IF ~create_noexist /\ f = Absent
    THEN Built(Raise("FileNotFoundError", "", "", ""), <<>>, EmptyMap, f, 0, 0)
    ELSE Registering(AddConfigs(args), args, f)

\* add after _add_configs: on failure self._configs keeps its value
\* _add_configs that assigns self._configs before it validates
ExtendedBeforeValidation(registered, all_configs, cfgs) ==
    [out |-> registered, configs |-> all_configs]

Extended(registered, all_configs, cfgs) ==
    [out |-> registered,
     configs |-> IF registered.kind = "ok" THEN Sorted(all_configs) ELSE cfgs]

\* add(*configs): _add_configs(*configs, *self._configs)
ParserAdd(args, cfgs) == Extended(AddConfigs(args \o cfgs), args \o cfgs, cfgs)

(***************************************************************************)
(* State machine                                                           *)
(***************************************************************************)
VARIABLES
    phase,      \* "new": no parser yet; "ready": constructed; "failed": __init__ raised
    file,       \* content of config_path, Absent when there is no file
    configs,    \* self._configs
    document,   \* self._config
    reads,      \* calls of format.read made by this parser
    writes,     \* calls of format.write made by this parser
    existed,    \* whether the file existed when __init__ was entered
    added,      \* whether add() has been called on this parser
    last,       \* the last call and its outcome
    universe,   \* the classes the application declares
    codec       \* a field value on its way through encoding and decoding

vars ==
    <<phase, file, configs, document, reads, writes, existed, added, last, universe,
      codec>>

\* the applications explored: the classes one application declares
Applications ==
    {{"InvalidConfig", "TopOne", "TopTwo", "AlphaConfig", "BetaConfig"},
     {"ParentDefaultConfig", "DefaultNested", "ParentConfig", "NamedNested",
      "AlphaConfig"},
     {"RequiredConfig", "MetricsConfig", "RefParent", "ChildConfig",
      "MappedRefParent"},
     {"AppConfig", "PathsConfig", "FlagsConfig", "UnionAlphaConfig"}}

\* argument lists of length 0..n over the classes of the application
ArgLists(n) == UNION {[1..k -> universe] : k \in 0..n}

\* a field value v of field number i of class c: as given ("value"), after
\* _serialize_field_value ("encoded"), after the decoding of _parse_config
\* ("decoded")
Codec(stage, c, i, v, raw, out) ==
    [stage |-> stage, cls |-> c, field |-> i, value |-> v, raw |-> raw, out |-> out,
     call |-> NoCall]

NoCodec == Codec("idle", "", 0, NoneT, NoneT, NoOutcome)

Call(op, args, create, cls, out) ==
    [op |-> op, args |-> args, create |-> create, cls |-> cls, out |-> out]

Init ==
    /\ universe \in Applications
    /\ phase = "new"
    /\ file \in InitialFiles
    /\ configs = <<>>
    /\ document = EmptyMap
    /\ reads = 0
    /\ writes = 0
    /\ existed = FALSE
    /\ added = FALSE
    /\ last = Call("none", <<>>, FALSE, "", NoOutcome)
    /\ codec = NoCodec

\* ConfigParser(path, *args, create_noexist=..., format=JSONFormat())
Construct(args, create_noexist) ==
    /\ phase = "new"
    /\ \E b \in {ParserInit(args, create_noexist, file)} :
           /\ phase' = IF b.out.kind = "ok" THEN "ready" ELSE "failed"
           /\ file' = b.file
           /\ configs' = b.configs
           /\ document' = b.document
           /\ reads' = b.reads
           /\ writes' = b.writes
           /\ last' = Call("construct", args, create_noexist, "", b.out)
    /\ existed' = (file # Absent)
    /\ UNCHANGED <<added, universe, codec>>

\* parser.add(*args)
Add(args) ==
    /\ phase = "ready"
    /\ Len(configs) < MaxConfigs
    /\ args # <<>>
    /\ \E a \in {ParserAdd(args, configs)} :
           /\ configs' = a.configs
           /\ last' = Call("add", <<>>, FALSE, "", a.out)
    /\ added' = TRUE
    /\ UNCHANGED <<phase, file, document, reads, writes, existed, universe, codec>>

\* parser.get(cls) reading the section with dict.pop
GetCallPopsSection(cls) ==
    /\ phase = "ready"
    /\ last' = Call("get", <<>>, FALSE, cls, Get(cls, configs, document))
    /\ document' =
          IF Registered(cls, configs) /\ HasKey(document, ApplyConfig(cls).name)
          THEN [p \in {q \in DOMAIN document :
                         ~(Len(q) >= 1 /\ q[1] = ApplyConfig(cls).name)} |-> document[p]]
          ELSE document
    /\ UNCHANGED <<phase, file, configs, reads, writes, existed, added, universe,
                   codec>>

\* parser.get(cls)
GetCall(cls) ==
    /\ phase = "ready"
    /\ last' = Call("get", <<>>, FALSE, cls, Get(cls, configs, document))
    /\ UNCHANGED <<phase, file, configs, document, reads, writes, existed, added,
                   universe, codec>>

Next ==
    \/ \E args \in ArgLists(MaxArgs), create_noexist \in BOOLEAN :
          Construct(args, create_noexist)
    \/ \E args \in ArgLists(MaxAddArgs) : Add(args)
    \/ \E cls \in universe : GetCall(cls)

Spec == Init /\ [][Next]_vars

(***************************************************************************)
(* _unwrap_optional on its own, over the annotations a field can declare.  *)
(***************************************************************************)
\* the classes an annotation is built from
TypeMembers == {"int", "str", "bool", "NoneType", "ChildConfig"}

\* get_args of a union: its members, each once, in the declared order
MemberLists(n) ==
    {a \in [1..n -> TypeMembers] : \A i, j \in 1..n : i # j => a[i] # a[j]}

\* the annotations: a class, or a union of two or more different classes
DeclaredTypes ==
    {Ty(m) : m \in TypeMembers}
       \cup {[union |-> TRUE, args |-> a] :
                a \in UNION {MemberLists(n) : n \in 2..MaxMembers}}

Unwrapping(stage, declared, out) ==
    [stage |-> stage, declared |-> declared, out |-> out]

UnwrapInit ==
    /\ universe = ClassNames
    /\ phase = "new"
    /\ file = Absent
    /\ configs = <<>>
    /\ document = EmptyMap
    /\ reads = 0
    /\ writes = 0
    /\ existed = FALSE
    /\ added = FALSE
    /\ last = Call("none", <<>>, FALSE, "", NoOutcome)
    /\ \E t \in DeclaredTypes : codec = Unwrapping("declared", t, t)

\* field_type = ConfigParser._unwrap_optional(resolved_types[field.name])
Unwrap ==
    /\ codec.stage = "declared"
    /\ codec' = [codec EXCEPT !.stage = "unwrapped",
                              !.out = UnwrapOptional(codec.declared)]
    /\ UNCHANGED <<phase, file, configs, document, reads, writes, existed, added,
                   last, universe>>

UnwrapNext == Unwrap

UnwrapSpec == UnwrapInit /\ [][UnwrapNext]_vars

(***************************************************************************)
(* The recursion of _get_class_fields and of _parse_config, one call or    *)
(* loop iteration at a time, over schema graphs that may have cycles.      *)
(* Each schema of a graph is a tuple of fields; a field has a declared     *)
(* type (int or a schema) and a default kind, and is stored under the key  *)
(* "f1", "f2" of its position.                                             *)
(***************************************************************************)
Schemas == {"A", "B"}

GraphField(type, dkind) == [type |-> type, dkind |-> dkind]

GraphFields(dkinds) ==
    {GraphField(t, k) : t \in {"int"} \cup Schemas, k \in dkinds}

\* schema A has two fields and schema B one
GraphsOver(dkinds) ==
    {[c \in Schemas |-> IF c = "A" THEN <<f, g>> ELSE <<h>>] :
        f \in GraphFields(dkinds), g \in GraphFields(dkinds),
        h \in GraphFields(dkinds)}

\* field.name of the field at position i
KeyAt(i) == IF i = 1 THEN "f1" ELSE "f2"

RECURSIVE DocumentsOf(_)

\* the documents of at most n levels of mappings below the top
DocumentsOf(n) ==
    IF n = 0 THEN {NoneT, Leaf(IntV("1"))}
    ELSE {NoneT, Leaf(IntV("1"))}
            \cup {Put(Put(EmptyMap, "f1", a), "f2", b) :
                     a \in DocumentsOf(n - 1), b \in DocumentsOf(n - 1)}

\* a call of _get_class_fields(cls) or _parse_config(cls, data) at field i
Frame(cls, i, data) == [cls |-> cls, i |-> i, data |-> data]

Rec(op, graph, stack, stage, out, depth) ==
    [op |-> op, graph |-> graph, stack |-> stack, stage |-> stage, out |-> out,
     depth |-> depth]

\* _get_class_fields(root), or get(root) on a document that is a mapping
Started(op, graph, root, doc) ==
    Rec(op, graph, <<Frame(root, 1, doc)>>, "running", "", 1)

RecInit ==
    /\ universe = ClassNames
    /\ phase = "new"
    /\ file = Absent
    /\ configs = <<>>
    /\ document = EmptyMap
    /\ reads = 0
    /\ writes = 0
    /\ existed = FALSE
    /\ added = FALSE
    /\ last = Call("none", <<>>, FALSE, "", NoOutcome)
    /\ \/ \E g \in GraphsOver({"value", "factory", "missing"}), root \in Schemas :
             codec = Started("synthesize", g, root, NoneT)
       \/ \E g \in GraphsOver({"missing"}), root \in Schemas,
               doc \in {d \in DocumentsOf(MaxDocDepth) : IsMapping(d)} :
             codec = Started("get", g, root, doc)

\* the call on top of the stack
Top == codec.stack[Len(codec.stack)]

\* the field the loop of the top call is at
AtField == Top.i <= Len(codec.graph[Top.cls])

TopField == codec.graph[Top.cls][Top.i]

\* the loop of the top call moves to its next field
Advance(stack) == [stack EXCEPT ![Len(stack)].i = @ + 1]

\* a recursive call: a new frame, or RecursionError at the recursion limit
Entered(r, frame) ==
    IF Len(r.stack) >= MaxDepth
    THEN [r EXCEPT !.stage = "done", !.out = "RecursionError"]
    ELSE [r EXCEPT !.stack = Append(Advance(@), frame),
                   !.depth = IF Len(r.stack) + 1 > @ THEN Len(r.stack) + 1 ELSE @]

\* the operation ends with an exception
Failed(r, kind) == [r EXCEPT !.stage = "done", !.out = kind]

\* _get_field_default_value that recurses although the field has a default
DescendsDespiteDefault(field) == field.type \in Schemas

\* _get_field_default_value calls _get_class_fields(field_type): the field
\* has no default value and its type is a dataclass
Descends(field) == field.dkind # "value" /\ field.type \in Schemas

Frozen == UNCHANGED <<phase, file, configs, document, reads, writes, existed,
                      added, last, universe>>

\* _get_class_fields: a field whose value is its default, its factory's
\* result or None
SynthesizeField ==
    /\ codec.stage = "running" /\ codec.op = "synthesize"
    /\ AtField
    /\ ~Descends(TopField)
    /\ codec' = [codec EXCEPT !.stack = Advance(@)]
    /\ Frozen

\* _get_class_fields: a field whose value is _get_class_fields(field_type)
SynthesizeNested ==
    /\ codec.stage = "running" /\ codec.op = "synthesize"
    /\ AtField
    /\ Descends(TopField)
    /\ codec' = Entered(codec, Frame(TopField.type, 1, NoneT))
    /\ Frozen

\* _parse_config: a field whose raw value is None, or whose type is int
ParsePlain ==
    /\ codec.stage = "running" /\ codec.op = "get"
    /\ AtField
    /\ IsMapping(Top.data)
    /\ HasKey(Top.data, KeyAt(Top.i))
    /\ Sub(Top.data, KeyAt(Top.i)) = NoneT \/ TopField.type \notin Schemas
    /\ codec' = IF \/ Sub(Top.data, KeyAt(Top.i)) = NoneT
                    \/ IsInstance(Sub(Top.data, KeyAt(Top.i)), "int")
                 THEN [codec EXCEPT !.stack = Advance(@)]
                 ELSE Failed(codec, "TypeError")
    /\ Frozen

\* _parse_config: a field of a dataclass type whose raw value is not None is
\* decoded by _parse_config(field_type, value)
ParseNested ==
    /\ codec.stage = "running" /\ codec.op = "get"
    /\ AtField
    /\ IsMapping(Top.data)
    /\ HasKey(Top.data, KeyAt(Top.i))
    /\ Sub(Top.data, KeyAt(Top.i)) # NoneT /\ TopField.type \in Schemas
    /\ codec' = Entered(codec, Frame(TopField.type, 1, Sub(Top.data, KeyAt(Top.i))))
    /\ Frozen

\* _parse_config: `key not in section_data` on a section that is a number
\* raises TypeError
ParseScalarSection ==
    /\ codec.stage = "running" /\ codec.op = "get"
    /\ AtField
    /\ ~IsMapping(Top.data)
    /\ codec' = Failed(codec, "TypeError")
    /\ Frozen

\* the loop of the top call is over: it returns to its caller
Return ==
    /\ codec.stage = "running"
    /\ ~AtField
    /\ codec' = IF Len(codec.stack) = 1
                 THEN [codec EXCEPT !.stage = "done", !.out = "ok", !.stack = <<>>]
                 ELSE [codec EXCEPT !.stack = SubSeq(@, 1, Len(@) - 1)]
    /\ Frozen

RecNext ==
    \/ SynthesizeField
    \/ SynthesizeNested
    \/ ParsePlain
    \/ ParseNested
    \/ ParseScalarSection
    \/ Return

\* a call that has started runs on
RecursionSpec == RecInit /\ [][RecNext]_vars /\ WF_vars(RecNext)

(***************************************************************************)
(* ConfigParser.generate_config(path, *instances, override_existing=...,   *)
(* format=...): a static method the tests call (test_parser.py:483-589).   *)
(* It writes the document of the supplied instances' current field values. *)
(***************************************************************************)
\* the instance ClassName() of a class whose fields all have defaults
RECURSIVE InstanceOf(_)
InstanceOf(c) ==
    LET fs == Fields(c)
        inst[n \in 0..Len(fs)] ==
            IF n = 0 THEN Leaf(InstV(c))
            ELSE Put(inst[n - 1], fs[n].id, fs[n].dval)
    IN  inst[Len(fs)]

\* another value of the declared type than the defaults in use
AltValue(field_type) ==
    LET tp == TypeName(UnwrapOptional(field_type))
    IN  CASE tp = "int" -> Leaf(IntV("8"))
          [] tp = "str" -> Leaf(StrV("prod"))
          [] tp = "bool" -> Leaf(BoolV("True"))
          [] tp = "Path" -> Leaf(PathV("/etc/app"))
          [] tp = "Child" -> ChildConfigInstance
          [] OTHER -> InstanceOf(tp)

\* ClassName(first_field=...): the instance with its first field set
Altered(c) == Put(InstanceOf(c), Fields(c)[1].id, AltValue(Fields(c)[1].type))

\* the instances of the application's classes handed to generate_config
Instances == UNION {{InstanceOf(c), Altered(c)} : c \in universe}

InstanceLists(n) == UNION {[1..k -> Instances] : k \in 0..n}

\* type(instance)
TypeOfInstance(inst) == Root(inst).v

RECURSIVE InstanceFields(_)

\* the encoding of a field value of an instance: the custom encoder, else
\* the string of a path, else the mapping of a schema instance, else the
\* value itself
EncodeValue(value, field_name, field_serializers) ==
    IF field_name \in DOMAIN field_serializers
    THEN ApplySerializer(field_serializers[field_name], value)
    ELSE IF Root(value).t = "Path"
    THEN Leaf(StrV(Root(value).v))
    ELSE IF Root(value).t = "inst" /\ IsConfigclassType(Root(value).v)
    THEN InstanceFields(value)
    ELSE value

\* the loop over the fields fs of the class c of an instance
InstanceDataOver(inst, c, fs) ==
    LET class_data[n \in 0..Len(fs)] ==
            IF n = 0 THEN EmptyMap
            ELSE Put(class_data[n - 1], FieldKey(c, fs[n]),
                     EncodeValue(Sub(inst, fs[n].id), fs[n].id,
                                 ApplyConfig(c).field_serializers))
    IN  class_data[Len(fs)]

\* the mapping of an instance's current field values under their mapped keys
InstanceFields(inst) ==
    InstanceDataOver(inst, TypeOfInstance(inst), Fields(TypeOfInstance(inst)))

\* the document of the instances: a top-level instance merged at depth 0,
\* any other stored under its class's name
InstancesDocument(instances) ==
    LET config_data[n \in 0..Len(instances)] ==
            IF n = 0 THEN EmptyMap
            ELSE ConfigDataWith(config_data[n - 1],
                                ApplyConfig(TypeOfInstance(instances[n])),
                                InstanceFields(instances[n]))
    IN  config_data[Len(instances)]

\* the classes of the instances, in the order supplied
ClassesOf(instances) == [n \in 1..Len(instances) |-> TypeOfInstance(instances[n])]

\* two instances of one class
HasDuplicates(cs) == \E i, j \in 1..Len(cs) : i # j /\ cs[i] = cs[j]

\* what generate_config leaves behind: its outcome and the file
Generated(out, f) == [out |-> out, file |-> f]

\* the validation of the instances and the write
WriteInstances(registered, instances, f) ==
    IF registered.kind # "ok" THEN Generated(registered, f)
    ELSE IF HasDuplicates(ClassesOf(instances))
    THEN Generated(Raise("ValueError", "duplicate", "", ""), f)
    ELSE Generated(Ok(NoneT), FormatWrite(f, InstancesDocument(instances)))

\* generate_config that writes whether or not the file exists
GenerateConfigOverwrites(instances, override_existing, f) ==
    WriteInstances(Validated(SelectSeq(ClassesOf(instances),
                                       LAMBDA c : ~IsConfigclassType(c)), <<>>),
                   instances, f)

\* generate_config: an existing file is replaced only when override_existing
\* is true
GenerateConfig(instances, override_existing, f) ==
    IF f # Absent /\ ~override_existing
    THEN Generated(Raise("FileExistsError", "", "", ""), f)
    ELSE WriteInstances(Validated(SelectSeq(ClassesOf(instances),
                                            LAMBDA c : ~IsConfigclassType(c)), <<>>),
                        instances, f)

\* ConfigParser.generate_config(path, *instances, override_existing=...)
GenerateCall(instances, override_existing) ==
    /\ phase = "new"
    /\ \E g \in {GenerateConfig(instances, override_existing, file)} :
           /\ file' = g.file
           /\ last' = Call("generate", ClassesOf(instances), override_existing, "",
                           g.out)
    /\ phase' = "generated"
    /\ existed' = (file # Absent)
    /\ UNCHANGED <<configs, document, reads, writes, added, universe, codec>>

GenNext ==
    \E instances \in InstanceLists(MaxInstances), override_existing \in BOOLEAN :
       GenerateCall(instances, override_existing)

GenSpec == Init /\ [][GenNext]_vars

(***************************************************************************)
(* The field codec on its own: a value valid for a field is encoded the    *)
(* way default synthesis encodes it and decoded the way _parse_config      *)
(* decodes the raw value it reads.                                         *)
(***************************************************************************)
\* values that are valid for a declared field type
ValidValues(field_type) ==
    LET tp == TypeName(UnwrapOptional(field_type))
    IN  (IF field_type.union THEN {NoneT} ELSE {}) \cup
        (CASE tp = "int" -> {Leaf(IntV(x)) : x \in {"0", "1", "3", "8"}}
           [] tp = "str" -> {Leaf(StrV(x)) : x \in {"", "alpha", "3", "./out"}}
           [] tp = "bool" -> {Leaf(BoolV(x)) : x \in {"True", "False"}}
           [] tp = "Path" -> {Leaf(PathV(x)) : x \in {"out", "/etc/app"}}
           [] tp = "Child" -> {ChildConfigInstance}
           [] OTHER -> {InstanceOf(tp)})

CodecInit ==
    /\ universe = ClassNames
    /\ phase = "new"
    /\ file = Absent
    /\ configs = <<>>
    /\ document = EmptyMap
    /\ reads = 0
    /\ writes = 0
    /\ existed = FALSE
    /\ added = FALSE
    /\ last = Call("none", <<>>, FALSE, "", NoOutcome)
    /\ \E c \in {d \in ClassNames : IsConfigclassType(d)} :
          \E i \in 1..Len(Fields(c)) :
             \E v \in ValidValues(Fields(c)[i].type) :
                codec = Codec("value", c, i, v, NoneT, NoOutcome)

\* value = _serialize_field_value(value, field.name, field_serializers)
Encode ==
    /\ codec.stage = "value"
    /\ codec' = [codec EXCEPT
                   !.stage = "encoded",
                   !.raw = SerializeFieldValue(codec.value,
                                               Fields(codec.cls)[codec.field].id,
                                               ApplyConfig(codec.cls).field_serializers)]
    /\ UNCHANGED <<phase, file, configs, document, reads, writes, existed, added,
                   last, universe>>

\* the decoding of _parse_config applied to the encoded value
Decode ==
    /\ codec.stage = "encoded"
    /\ codec' = [codec EXCEPT
                   !.stage = "decoded",
                   !.call = FieldCall(Fields(codec.cls)[codec.field],
                                      ApplyConfig(codec.cls).field_deserialzers,
                                      codec.raw),
                   !.out = DecodeField(Fields(codec.cls)[codec.field],
                                       ApplyConfig(codec.cls).field_deserialzers,
                                       codec.raw, configs, document)]
    /\ UNCHANGED <<phase, file, configs, document, reads, writes, existed, added,
                   last, universe>>

\* raw values a configuration file can hold for a field
RawValues ==
    {NoneT, EmptyMap,
     Leaf(BoolV("True")), Leaf(BoolV("False")),
     Leaf(IntV("0")), Leaf(IntV("1")), Leaf(IntV("8")),
     Leaf(StrV("true")), Leaf(StrV("TRUE")), Leaf(StrV("1")), Leaf(StrV("Yes")),
     Leaf(StrV("false")), Leaf(StrV("no")), Leaf(StrV("0")), Leaf(StrV("")),
     Leaf(StrV("8x")), Leaf(StrV("alpha"))}

\* the loop body of _parse_config on a raw value read from a file
DecodeRaw(raw) ==
    /\ codec.stage = "value"
    /\ codec' = [codec EXCEPT
                   !.stage = "read",
                   !.raw = raw,
                   !.call = FieldCall(Fields(codec.cls)[codec.field],
                                      ApplyConfig(codec.cls).field_deserialzers,
                                      raw),
                   !.out = DecodeField(Fields(codec.cls)[codec.field],
                                       ApplyConfig(codec.cls).field_deserialzers,
                                       raw, configs, document)]
    /\ UNCHANGED <<phase, file, configs, document, reads, writes, existed, added,
                   last, universe>>

CodecNext == Encode \/ Decode \/ \E raw \in RawValues : DecodeRaw(raw)

CodecSpec == CodecInit /\ [][CodecNext]_vars

(***************************************************************************)
(* Properties                                                              *)
(***************************************************************************)
Range(seq) == {seq[i] : i \in 1..Len(seq)}

\* the entries of a list that are declared schemas flagged top-level
RootEntries(cs) ==
    {i \in 1..Len(cs) : IsConfigclassType(cs[i]) /\ ApplyConfig(cs[i]).top_level}

\* the supplied types that are not declared config classes
Undeclared(cs) == {c \in Range(cs) : ~IsConfigclassType(c)}

ConstructedLast == last.op = "construct"

\* C1 (as stated): the registered list never holds more than one schema
\* flagged top-level, and every construction that is given two or more
\* top-level schemas fails with MultipleTopLevelConfigError naming each of
\* them.
C1_AsStated ==
    /\ Cardinality(RootEntries(configs)) <= 1
    /\ (ConstructedLast /\ Cardinality(RootEntries(last.args)) >= 2)
          => /\ last.out.kind = "MultipleTopLevelConfigError"
             /\ \A i \in RootEntries(last.args) : last.args[i] \in Range(last.out.names)

\* C1 (amended): the registered list never holds more than one schema
\* flagged top-level; a construction that is given two or more top-level
\* schemas always fails, and it fails with MultipleTopLevelConfigError naming
\* each of them when the file exists or creation is allowed and every
\* supplied type is a declared schema.
C1_AtMostOneRoot ==
    /\ Cardinality(RootEntries(configs)) <= 1
    /\ (ConstructedLast /\ Cardinality(RootEntries(last.args)) >= 2)
          => /\ phase = "failed"
             /\ ((existed \/ last.create) /\ Undeclared(last.args) = {})
                   => /\ last.out.kind = "MultipleTopLevelConfigError"
                      /\ \A i \in RootEntries(last.args) :
                            last.args[i] \in Range(last.out.names)

C1_Witness ==
    /\ ConstructedLast
    /\ last.out.kind = "MultipleTopLevelConfigError"
    /\ Len(last.out.names) = 2
    /\ last.out.names[1] # last.out.names[2]

C3_MissingFile ==
    (ConstructedLast /\ ~existed /\ ~last.create)
       => /\ phase = "failed"
          /\ last.out.kind = "FileNotFoundError"
          /\ writes = 0
          /\ reads = 0
          /\ file = Absent

C3_Witness ==
    /\ ConstructedLast
    /\ ~existed
    /\ ~last.create
    /\ last.args # <<>>
    /\ Undeclared(last.args) = {}
    /\ last.out.kind = "FileNotFoundError"

\* the adapter calls a parser has made so far
C4_Counts ==
    /\ reads <= 1
    /\ phase = "ready" => (reads = 1 /\ writes = IF existed THEN 0 ELSE 1)
    /\ phase # "ready" => writes = 0

\* a get() or add() call makes no adapter call and leaves the file alone
C4_Frame ==
    (last' # last /\ last'.op \in {"get", "add"})
       => (reads' = reads /\ writes' = writes /\ file' = file)

GotLast == last.op = "get"

\* a get() call leaves the document and the registrations as they were, it
\* changes the outcome of no later get(), and it repeats the outcome of the
\* get() of the same class that came right before it
C5_Frame ==
    (last' # last /\ last'.op = "get")
       => /\ document' = document
          /\ configs' = configs
          /\ \A c \in universe : Get(c, configs', document') = Get(c, configs, document)
          /\ (GotLast /\ last.cls = last'.cls) => last'.out = last.out

\* C5: get() is a pure read: whatever get() calls are made, in whatever
\* order, succeeding or raising, and also when a custom decoder calls get()
\* itself, the document and the registrations stay unchanged and every
\* schema keeps the outcome its get() had before.
C5_GetIsPure == [][C5_Frame]_vars

C5_Witness ==
    /\ GotLast
    /\ last.cls = "RefParent"
    /\ last.out.kind = "ok"
    /\ Root(Sub(last.out.val, "child")) = InstV("ChildConfig")

\* C6: get() of a registered schema parses the whole document when the
\* schema is flagged top-level and document[name] otherwise; a non-root
\* schema whose name is no top-level key raises the missing-section KeyError
\* and yields no instance.
C6_SectionLookup ==
    (GotLast /\ Registered(last.cls, configs))
       => LET spec == ApplyConfig(last.cls)
          IN  IF spec.top_level
              THEN last.out = ParseConfig(last.cls, document, configs, document)
              ELSE IF HasKey(document, spec.name)
              THEN last.out =
                      ParseConfig(last.cls, Sub(document, spec.name), configs, document)
              ELSE /\ last.out.kind = "KeyError"
                   /\ last.out.what = "missing_section"
                   /\ last.out.key = spec.name
                   /\ last.out.val = NoneT

C6_Witness ==
    /\ GotLast
    /\ Registered(last.cls, configs)
    /\ ~ApplyConfig(last.cls).top_level
    /\ Keys(document) # {}
    /\ last.out.what = "missing_section"

\* the section get() hands to the parse of the last requested class
LocatedSection ==
    IF ApplyConfig(last.cls).top_level THEN document
    ELSE Sub(document, ApplyConfig(last.cls).name)

SectionLocated ==
    /\ GotLast
    /\ Registered(last.cls, configs)
    /\ ApplyConfig(last.cls).top_level \/ HasKey(document, ApplyConfig(last.cls).name)

\* the <<schema, key>> pairs of the fields whose key is absent, in a class
\* and in the nested classes its mapping-valued fields lead to
RECURSIVE MissingKeys(_, _)
MissingKeys(c, section) ==
    IF Root(section).t # "map" THEN {}
    ELSE UNION {
           LET f == Fields(c)[i]
               key == FieldKey(c, f)
               nested == TypeName(UnwrapOptional(f.type))
           IN  IF ~HasKey(section, key) THEN {<<c, key>>}
               ELSE IF /\ f.id \notin DOMAIN ApplyConfig(c).field_deserialzers
                       /\ IsDataclass(nested)
                       /\ Root(Sub(section, key)).t = "map"
               THEN MissingKeys(nested, Sub(section, key))
               ELSE {}
           : i \in 1..Len(Fields(c))}

\* whether field i of class c decodes from the section
Decodes(c, i, section) ==
    LET f == Fields(c)[i]
        key == FieldKey(c, f)
        ds == ApplyConfig(c).field_deserialzers
    IN  /\ HasKey(section, key)
        /\ (IF f.id \in DOMAIN ds
            THEN ApplyDeserializer(ds[f.id], Sub(section, key), configs, document)
            ELSE ConvertFieldValue(Sub(section, key), UnwrapOptional(f.type),
                                   configs, document)).kind = "ok"

\* C7 (as stated): for every field, of the requested schema or of a nested
\* schema, whose key is absent from its section, get() fails with the
\* missing-key error naming that schema and that key.
C7_AsStated ==
    SectionLocated
       => \A m \in MissingKeys(last.cls, LocatedSection) :
             /\ last.out.kind = "KeyError"
             /\ last.out.what = "missing_key"
             /\ last.out.schema = m[1]
             /\ last.out.key = m[2]

\* C7 (amended): when the key of a field of the requested schema, or of a
\* nested schema reached through mapping-valued fields, is absent from its
\* section, get() returns no instance, default or not; a missing-key error
\* it raises names a schema and a key that is absent; and when the fields
\* the requested schema declares before its first absent key all decode, the
\* error is the missing-key error naming the requested schema and that key.
C7_NoSilentDefault ==
    (SectionLocated /\ IsMapping(LocatedSection)
        /\ MissingKeys(last.cls, LocatedSection) # {})
       => /\ last.out.kind # "ok"
          /\ last.out.val = NoneT
          /\ last.out.what = "missing_key"
                => <<last.out.schema, last.out.key>>
                      \in MissingKeys(last.cls, LocatedSection)
          /\ \A i \in 1..Len(Fields(last.cls)) :
                (/\ ~HasKey(LocatedSection, FieldKey(last.cls, Fields(last.cls)[i]))
                 /\ \A j \in 1..(i - 1) : Decodes(last.cls, j, LocatedSection))
                   => last.out = Raise("KeyError", "missing_key", last.cls,
                                       FieldKey(last.cls, Fields(last.cls)[i]))

C7_Witness ==
    /\ SectionLocated
    /\ last.cls = "AlphaConfig"
    /\ Fields("AlphaConfig")[1].dkind = "value"
    /\ ~HasKey(LocatedSection, "label")
    /\ last.out = Raise("KeyError", "missing_key", "AlphaConfig", "label")

\* C8: get() of a type that is not registered raises the unregistered-schema
\* ValueError and nothing else, whatever the document holds and whether or
\* not the type is a field type of a registered schema.
C8_Unregistered ==
    (GotLast /\ ~Registered(last.cls, configs))
       => last.out = Raise("ValueError", "unregistered", last.cls, "")

C8_Witness ==
    /\ GotLast
    /\ ~Registered(last.cls, configs)
    /\ IsConfigclassType(last.cls)
    /\ HasKey(document, ApplyConfig(last.cls).name)
    /\ \E s \in Range(configs) : \E i \in 1..Len(Fields(s)) :
          TypeName(UnwrapOptional(Fields(s)[i].type)) = last.cls
    /\ last.out.kind = "ValueError"

\* the unwrapped field types of the registered schemas
FieldTypesOf(cfgs) ==
    UNION {{TypeName(UnwrapOptional(Fields(s)[i].type)) : i \in 1..Len(Fields(s))} :
             s \in Range(cfgs)}

\* C9: the classifier returns the registered schemas that are not the
\* unwrapped type of a field of a registered schema, in the order of
\* configs, and nothing that is not registered.
C9_Classifier ==
    /\ GetRootConfigs(configs) =
          SelectSeq(configs, LAMBDA c : c \notin FieldTypesOf(configs))
    /\ Range(GetRootConfigs(configs)) \subseteq Range(configs)

C9_Witness ==
    /\ phase = "ready"
    /\ configs = <<"ParentConfig", "NamedNested">>
    /\ Fields("ParentConfig")[1].type.union
    /\ GetRootConfigs(configs) = <<"ParentConfig">>

\* the instance a class's declared defaults describe: the explicit default,
\* else for a schema-typed field the nested class's instance, else the
\* factory's value, else the absent value
RECURSIVE DefaultInstance(_)
DefaultInstance(c) ==
    LET fs == Fields(c)
        inst[n \in 0..Len(fs)] ==
            IF n = 0 THEN Leaf(InstV(c))
            ELSE LET f == fs[n]
                     nested == TypeName(UnwrapOptional(f.type))
                 IN  Put(inst[n - 1], f.id,
                         IF f.dkind = "value" THEN f.dval
                         ELSE IF IsDataclass(nested) THEN DefaultInstance(nested)
                         ELSE IF f.dkind = "factory" THEN f.dval
                         ELSE NoneT)
    IN  inst[Len(fs)]

\* the nested classes a class leads to through its schema-typed fields,
\* itself included
RECURSIVE Reachable(_)
Reachable(c) ==
    {c} \cup UNION {Reachable(TypeName(UnwrapOptional(Fields(c)[i].type))) :
                      i \in {j \in 1..Len(Fields(c)) :
                               IsDataclass(TypeName(UnwrapOptional(Fields(c)[j].type)))}}

\* no custom encoder or decoder on the class or on a class nested in it
NoCustomCodec(c) ==
    \A r \in Reachable(c) :
        /\ DOMAIN ApplyConfig(r).field_serializers = {}
        /\ DOMAIN ApplyConfig(r).field_deserialzers = {}

\* every explicit default is a value of the field's unwrapped type
TypedDefaults(c) ==
    \A r \in Reachable(c) : \A i \in 1..Len(Fields(r)) :
        Fields(r)[i].dkind = "value"
           => IsInstance(Fields(r)[i].dval, TypeName(UnwrapOptional(Fields(r)[i].type)))

\* the top-level keys a classified root writes into the default document
TopKeys(c) ==
    IF ApplyConfig(c).top_level
    THEN {FieldKey(c, Fields(c)[i]) : i \in 1..Len(Fields(c))}
    ELSE {ApplyConfig(c).name}

\* no two different roots write the same top-level key, and no class in use
\* maps two fields to one key
NoKeyCollision(cfgs) ==
    /\ \A a, b \in Range(GetRootConfigs(cfgs)) : a # b => TopKeys(a) \cap TopKeys(b) = {}
    /\ \A a \in Range(cfgs) : \A r \in Reachable(a) : \A i, j \in 1..Len(Fields(r)) :
          i # j => FieldKey(r, Fields(r)[i]) # FieldKey(r, Fields(r)[j])

\* a get() made on a parser that synthesized its document, before any add()
GotFromDefaults ==
    /\ phase = "ready"
    /\ ~existed
    /\ ~added
    /\ GotLast
    /\ Registered(last.cls, configs)

\* C10 (as stated): after default synthesis, get() of every registered
\* schema returns the instance of its declared defaults.
C10_AsStated == GotFromDefaults => last.out = Ok(DefaultInstance(last.cls))

\* C10 (amended): after default synthesis, get() returns the instance of the
\* declared defaults for every registered schema that the classifier returns
\* as a root, provided the schema and the schemas nested in it have no
\* custom encoder or decoder, their explicit defaults are values of the
\* declared types, and no two roots write the same top-level key.
C10_DefaultsRoundTrip ==
    (/\ GotFromDefaults
     /\ last.cls \in Range(GetRootConfigs(configs))
     /\ NoCustomCodec(last.cls)
     /\ TypedDefaults(last.cls)
     /\ NoKeyCollision(configs))
       => last.out = Ok(DefaultInstance(last.cls))

C10_Witness ==
    /\ GotFromDefaults
    /\ last.cls = "ParentDefaultConfig"
    /\ configs = <<"ParentDefaultConfig", "DefaultNested">>
    /\ NoKeyCollision(configs)
    /\ last.out.kind = "ok"
    /\ Sub(last.out.val, "nested") = DefaultInstance("DefaultNested")

\* the registered top-level classes that the classifier returns and that
\* store the synthesized mapping of class n under the key n's section name
ParentsStoring(n, cfgs) ==
    {p \in Range(GetRootConfigs(cfgs)) :
        /\ ApplyConfig(p).top_level
        /\ \E i \in 1..Len(Fields(p)) :
              /\ TypeName(UnwrapOptional(Fields(p)[i].type)) = n
              /\ FieldKey(p, Fields(p)[i]) = ApplyConfig(n).name
              /\ Fields(p)[i].dkind # "value"
              /\ Fields(p)[i].id \notin DOMAIN ApplyConfig(p).field_serializers}

\* the last call was get() of a registered non-root schema that is also the
\* field type of a registered schema
GotNested ==
    /\ GotLast
    /\ Registered(last.cls, configs)
    /\ ~ApplyConfig(last.cls).top_level
    /\ last.cls \in FieldTypesOf(configs)

\* C11: a registered non-root schema that is also the field type of a
\* registered schema is not rejected as unregistered; get() resolves it from
\* document[name] although the classifier does not return it; after default
\* synthesis it gets its defaults when a root parent stored its mapping under
\* its name, and the missing-section KeyError when the document has no such
\* top-level key.
C11_NestedQueryable ==
    GotNested
       => /\ last.cls \notin Range(GetRootConfigs(configs))
          /\ last.out.what # "unregistered"
          /\ HasKey(document, ApplyConfig(last.cls).name)
                => last.out = ParseConfig(last.cls,
                                          Sub(document, ApplyConfig(last.cls).name),
                                          configs, document)
          /\ (~existed /\ ~added /\ ParentsStoring(last.cls, configs) # {})
                => last.out = Ok(DefaultInstance(last.cls))
          /\ ~HasKey(document, ApplyConfig(last.cls).name)
                => last.out = Raise("KeyError", "missing_section", last.cls,
                                    ApplyConfig(last.cls).name)

C11_Witness ==
    /\ GotNested
    /\ ~existed
    /\ configs = <<"ParentConfig", "NamedNested">>
    /\ last.cls = "NamedNested"
    /\ document = Build(MapV, ("nested" :> Build(MapV, ("value" :> Leaf(StrV("value"))))))
    /\ last.out = Ok(Build(InstV("NamedNested"), ("value" :> Leaf(StrV("value")))))

\* the key the decorator's field_name_mappings argument gives field f of
\* class c, the field's identifier when it has no entry
DeclaredKey(c, f) ==
    IF f.id \in DOMAIN Class(c).field_name_mappings
    THEN Class(c).field_name_mappings[f.id]
    ELSE f.id

DeclaredKeys(c) == {DeclaredKey(c, Fields(c)[i]) : i \in 1..Len(Fields(c))}

\* the mapping default synthesis wrote for a classified root
WrittenFor(c) ==
    IF ApplyConfig(c).top_level THEN document
    ELSE Sub(document, ApplyConfig(c).name)

\* C12: parsing reads a field from the key its field-name map gives it (its
\* own identifier without an entry) and never from the identifier of a
\* mapped field: the instance holds the decoding of section[k], and a
\* section without k raises the missing-key error naming k even when it
\* holds the identifier; default synthesis writes the keys k and no
\* identifier of a mapped field.
C12_MappedKey ==
    /\ (SectionLocated /\ IsMapping(LocatedSection))
          => \A i \in 1..Len(Fields(last.cls)) :
               LET f == Fields(last.cls)[i]
                   k == DeclaredKey(last.cls, f)
               IN  /\ last.out.kind = "ok"
                        => /\ HasKey(LocatedSection, k)
                           /\ Sub(last.out.val, f.id) =
                                 DecodeField(f, Class(last.cls).field_deserialzers,
                                             Sub(LocatedSection, k),
                                             configs, document).val
                   /\ (/\ ~HasKey(LocatedSection, k)
                       /\ \A j \in 1..(i - 1) : Decodes(last.cls, j, LocatedSection))
                        => last.out = Raise("KeyError", "missing_key", last.cls, k)
    /\ \A c \in {d \in universe : IsConfigclassType(d)} :
          Keys(GetClassFields(c)) = DeclaredKeys(c)
    /\ (phase = "ready" /\ ~existed /\ ~added)
          => \A c \in Range(GetRootConfigs(configs)) :
                IF ApplyConfig(c).top_level
                THEN DeclaredKeys(c) \subseteq Keys(document)
                ELSE \/ Keys(WrittenFor(c)) = DeclaredKeys(c)
                     \/ \E d \in Range(GetRootConfigs(configs)) :
                           d # c /\ ApplyConfig(d).name = ApplyConfig(c).name

\* get(MetricsConfig) on a section holding both count_value and count
C12_Witness ==
    /\ SectionLocated
    /\ last.cls = "MetricsConfig"
    /\ DeclaredKey("MetricsConfig", Fields("MetricsConfig")[1]) = "count_value"
    /\ Sub(LocatedSection, "count") = Leaf(IntV("1"))
    /\ Sub(LocatedSection, "count_value") = Leaf(IntV("8"))
    /\ last.out = Ok(Build(InstV("MetricsConfig"), ("count" :> Leaf(IntV("8")))))

\* a parser that synthesized its document and has not been extended since
SynthesizedNow == phase = "ready" /\ ~existed /\ ~added

\* what classified root c puts under the top-level key k it writes
WrittenUnder(c, k) ==
    IF ApplyConfig(c).top_level THEN Sub(GetClassFields(c), k)
    ELSE GetClassFields(c)

\* the positions, in the classifier's output, of the roots that write the
\* top-level key k
WritersOf(roots, k) == {i \in 1..Len(roots) : k \in TopKeys(roots[i])}

Last(S) == CHOOSE i \in S : \A j \in S : j <= i

\* C13 (as stated): in the synthesized document every key of a top-level
\* classified root holds that root's encoded default, every other classified
\* root's mapping is stored under its name, and there is no other top-level
\* key.
C13_AsStated ==
    SynthesizedNow
       => /\ \A c \in Range(GetRootConfigs(configs)) : \A k \in TopKeys(c) :
                HasKey(document, k) /\ Sub(document, k) = WrittenUnder(c, k)
          /\ Keys(document) = UNION {TopKeys(c) : c \in Range(GetRootConfigs(configs))}

\* C13 (amended): the synthesized document is a mapping whose top-level keys
\* are the field keys of the top-level classified root and the names of the
\* other classified roots, and nothing else; each key holds what the last
\* root writing it, in the order of configs, put there, so a root's key
\* holds that root's value unless a later root writes the same key.
C13_DefaultDocumentShape ==
    SynthesizedNow
       => LET roots == GetRootConfigs(configs)
          IN  /\ IsMapping(document)
              /\ Keys(document) = UNION {TopKeys(c) : c \in Range(roots)}
              /\ \A k \in Keys(document) :
                    Sub(document, k) = WrittenUnder(roots[Last(WritersOf(roots, k))], k)
              /\ \A i \in 1..Len(roots) : \A k \in TopKeys(roots[i]) :
                    (\A j \in WritersOf(roots, k) : j <= i)
                       => Sub(document, k) = WrittenUnder(roots[i], k)

C13_Witness ==
    /\ SynthesizedNow
    /\ configs = <<"AlphaConfig", "BetaConfig">>
    /\ document =
          Build(MapV, ("alpha" :> Build(MapV, ("label" :> Leaf(StrV("alpha")))) @@
                       "beta" :> Build(MapV, ("count" :> Leaf(IntV("5"))))))

\* the field being encoded has no custom encoder and no custom decoder
CodecIsStructural ==
    /\ codec.stage # "idle"
    /\ Fields(codec.cls)[codec.field].id
          \notin DOMAIN ApplyConfig(codec.cls).field_serializers
    /\ Fields(codec.cls)[codec.field].id
          \notin DOMAIN ApplyConfig(codec.cls).field_deserialzers

\* C14: without a custom encoder and decoder, decoding the encoded form of a
\* value that is valid for the field (a scalar, a path, an instance of a
\* nested schema, the absent value of an optional field) yields the value.
C14_RoundTrip ==
    (CodecIsStructural /\ codec.stage = "decoded") => codec.out = Ok(codec.value)

\* the fields of class c that have no explicit default, no default factory
\* and a type that is not a schema
Defaultless(c) ==
    {i \in 1..Len(Fields(c)) :
        /\ Fields(c)[i].dkind = "missing"
        /\ ~IsDataclass(TypeName(UnwrapOptional(Fields(c)[i].type)))}

ResolvedFields(c) ==
    {i \in 1..Len(Fields(c)) :
        /\ Fields(c)[i].id \in DOMAIN Class(c).field_deserialzers
        /\ Class(c).field_deserialzers[Fields(c)[i].id] = "resolve_child"}

\* raw values a document may hold under the key of such a field
RawSamples ==
    {NoneT, Leaf(StrV("alpha")), Leaf(IntV("8")), EmptyMap,
     Build(MapV, ("name" :> Leaf(StrV("beta"))))}

\* C16: a field whose custom decoder returns parser.get(Child) holds the
\* Child instance parsed from Child's own section: the decoder's result is
\* the field value as it is, and the raw value under the field's key plays
\* no part.
C16_DecoderCallsBack ==
    (/\ SectionLocated
     /\ IsMapping(LocatedSection)
     /\ Registered("ChildConfig", configs))
       => \A i \in ResolvedFields(last.cls) :
            LET k == DeclaredKey(last.cls, Fields(last.cls)[i])
            IN  (/\ HasKey(LocatedSection, k)
                 /\ \A j \in 1..(i - 1) : Decodes(last.cls, j, LocatedSection))
                   => /\ IF HasKey(document, "child")
                         THEN LET child == ParseConfig("ChildConfig",
                                                       Sub(document, "child"),
                                                       configs, document)
                              IN  IF child.kind = "ok"
                                  THEN /\ last.out.kind = "ok"
                                       /\ Sub(last.out.val, Fields(last.cls)[i].id)
                                             = child.val
                                  ELSE last.out = child
                         ELSE last.out = Raise("KeyError", "missing_section",
                                               "ChildConfig", "child")
                      /\ \A x \in RawSamples :
                            ParseConfig(last.cls, Put(LocatedSection, k, x),
                                        configs, document) = last.out

\* the parent read back from the synthesized {"child_ref": "alpha", "child": {...}}
C16_Witness ==
    /\ SectionLocated
    /\ last.cls = "MappedRefParent"
    /\ Registered("ChildConfig", configs)
    /\ Sub(document, "child_ref") = Leaf(StrV("alpha"))
    /\ last.out = Ok(Build(InstV("MappedRefParent"), ("child" :> ChildConfigInstance)))

\* the schemas flagged top-level in a set of classes
RootsAmong(S) == {c \in S : IsConfigclassType(c) /\ ApplyConfig(c).top_level}

\* cfgs is root-first and then by case-insensitive name
IsSorted(cfgs) == \A i, j \in 1..Len(cfgs) : i < j => ~KeyLess(cfgs[j], cfgs[i])

\* what add(args) has to leave behind when every supplied type is declared
\* and the registered and supplied schemas together hold at most one root
AddedAsSet(args) ==
    (/\ Undeclared(args) = {}
     /\ Cardinality(RootsAmong(Range(args) \cup Range(configs))) <= 1)
       => /\ last'.out.kind = "ok"
          /\ Range(configs') = Range(args) \cup Range(configs)
          /\ Len(configs') = Cardinality(Range(args) \cup Range(configs))
          /\ IsSorted(configs')
          /\ \A c \in Range(configs') :
                Get(c, configs', document') # Raise("ValueError", "unregistered", c, "")

C17_Step == \A args \in ArgLists(MaxAddArgs) : Add(args) => AddedAsSet(args)

\* C17: add() succeeds whenever every supplied type is a declared schema
\* and the registered and supplied schemas together hold at most one root;
\* afterwards configs is that union, each schema once, sorted root-first and
\* then by case-insensitive name, and get() accepts every schema in it.
C17_AddUnion == [][C17_Step]_vars

\* the default value synthesis chooses for field i of class c
ChosenDefault(c, i) ==
    GetFieldDefaultValue(Fields(c)[i], UnwrapOptional(Fields(c)[i].type))

\* what synthesis has to store for field i of class c: the custom encoder
\* applied once to the chosen default; without one the string form of a
\* path and any other value as it is
ExpectedStored(c, i) ==
    IF Fields(c)[i].id \in DOMAIN Class(c).field_serializers
    THEN ApplySerializer(Class(c).field_serializers[Fields(c)[i].id],
                         ChosenDefault(c, i))
    ELSE IF Root(ChosenDefault(c, i)).t = "Path"
    THEN Leaf(StrV(Root(ChosenDefault(c, i)).v))
    ELSE ChosenDefault(c, i)

\* classified root c is the only root writing the top-level key k
OnlyWriter(c, k) ==
    \A j \in WritersOf(GetRootConfigs(configs), k) : GetRootConfigs(configs)[j] = c

\* C18: default synthesis stores, for a field with a custom encoder, the
\* encoder's result on the chosen default, applied once; without a custom
\* encoder it stores a path as its string form and any other value
\* unchanged.
C18_EncodedDefaults ==
    /\ \A c \in {d \in universe : IsConfigclassType(d)} :
          \A i \in 1..Len(Fields(c)) :
             Sub(GetClassFields(c), DeclaredKey(c, Fields(c)[i])) = ExpectedStored(c, i)
    /\ SynthesizedNow
          => \A c \in Range(GetRootConfigs(configs)) : \A i \in 1..Len(Fields(c)) :
                LET k == DeclaredKey(c, Fields(c)[i])
                IN  IF ApplyConfig(c).top_level
                    THEN OnlyWriter(c, k) => Sub(document, k) = ExpectedStored(c, i)
                    ELSE OnlyWriter(c, ApplyConfig(c).name)
                            => Sub(WrittenFor(c), k) = ExpectedStored(c, i)
    /\ (SynthesizedNow /\ configs = <<"PathsConfig">>)
          => document =
                Build(MapV, ("PathsConfig" :>
                                Build(MapV, ("output_dir" :> Leaf(StrV("out"))))))

\* count = 3 with the encoder f"{value}x" is stored as "3x"
C18_Witness ==
    /\ SynthesizedNow
    /\ configs = <<"MetricsConfig">>
    /\ ChosenDefault("MetricsConfig", 1) = Leaf(IntV("3"))
    /\ document =
          Build(MapV, ("metrics" :> Build(MapV, ("count_value" :> Leaf(StrV("3x"))))))

\* the value the precedence of the claim picks for field i of class c
PrecedenceDefault(c, i) ==
    LET f == Fields(c)[i]
        tp == TypeName(UnwrapOptional(f.type))
    IN  IF f.dkind = "value" THEN f.dval
        ELSE IF IsDataclass(tp) THEN GetClassFields(tp)
        ELSE IF f.dkind = "factory" THEN f.dval
        ELSE NoneT

\* C20: default synthesis picks a field's value by precedence: the explicit
\* default; else, for a field whose unwrapped type is a schema, the
\* recursively synthesized mapping of that schema, also when the field has a
\* default factory; else the default factory's result; else null.
C20_DefaultPrecedence ==
    /\ \A c \in {d \in universe : IsConfigclassType(d)} :
          \A i \in 1..Len(Fields(c)) :
             /\ ChosenDefault(c, i) = PrecedenceDefault(c, i)
             /\ Fields(c)[i].id \notin DOMAIN Class(c).field_serializers
                   => Sub(GetClassFields(c), DeclaredKey(c, Fields(c)[i])) =
                         IF Root(PrecedenceDefault(c, i)).t = "Path"
                         THEN Leaf(StrV(Root(PrecedenceDefault(c, i)).v))
                         ELSE PrecedenceDefault(c, i)
    /\ (SynthesizedNow /\ configs = <<"ParentDefaultConfig">>)
          => document =
                Build(MapV, ("nested" :> Build(MapV, ("value" :> Leaf(StrV("value"))))))
    /\ (SynthesizedNow /\ configs = <<"ParentConfig">>)
          => document =
                Build(MapV, ("nested" :> Build(MapV, ("value" :> Leaf(StrV("value"))))))
    /\ (SynthesizedNow /\ configs = <<"RefParent">>)
          => document = Build(MapV, ("child" :> Leaf(StrV("alpha"))))
    /\ (SynthesizedNow /\ configs = <<"RequiredConfig">>)
          => document =
                Build(MapV, ("app" :> Build(MapV, ("count" :> NoneT @@ "label" :> NoneT))))

\* a field with a default factory and a schema type gets the mapping
C20_Witness ==
    /\ SynthesizedNow
    /\ configs = <<"AppConfig">>
    /\ Fields("AppConfig")[2].dkind = "factory"
    /\ Root(Fields("AppConfig")[2].dval).t = "inst"
    /\ Sub(document, "name") = Leaf(StrV("demo"))
    /\ Sub(document, "paths") = Build(MapV, ("output_dir" :> Leaf(StrV("out"))))
    /\ Sub(document, "flags") =
          Build(MapV, ("retries" :> Leaf(IntV("3")) @@
                       "verbose" :> Leaf(BoolV("False"))))

\* what generate_config is expected to store for field i of an instance of c
ExpectedWritten(inst, c, i) ==
    IF Fields(c)[i].id \in DOMAIN Class(c).field_serializers
    THEN ApplySerializer(Class(c).field_serializers[Fields(c)[i].id],
                         Sub(inst, Fields(c)[i].id))
    ELSE IF Root(Sub(inst, Fields(c)[i].id)).t = "Path"
    THEN Leaf(StrV(Root(Sub(inst, Fields(c)[i].id)).v))
    ELSE IF Root(Sub(inst, Fields(c)[i].id)).t = "inst"
    THEN InstanceFields(Sub(inst, Fields(c)[i].id))
    ELSE Sub(inst, Fields(c)[i].id)

\* the mapping m holds every field of the instance under its declared key
HoldsFields(m, inst, c) ==
    \A i \in 1..Len(Fields(c)) :
       /\ HasKey(m, DeclaredKey(c, Fields(c)[i]))
       /\ Sub(m, DeclaredKey(c, Fields(c)[i])) = ExpectedWritten(inst, c, i)

\* the file f holds the instance: at depth 0 when its class is top-level,
\* else as the mapping under the class's name
HoldsInstance(f, inst, c) ==
    IF ApplyConfig(c).top_level THEN HoldsFields(f, inst, c)
    ELSE /\ HasKey(f, ApplyConfig(c).name)
         /\ IsMapping(Sub(f, ApplyConfig(c).name))
         /\ Keys(Sub(f, ApplyConfig(c).name)) = DeclaredKeys(c)
         /\ HoldsFields(Sub(f, ApplyConfig(c).name), inst, c)

\* instances of pairwise different schemas that write pairwise different
\* top-level keys
SeparateInstances(instances) ==
    /\ \A n \in 1..Len(instances) : IsConfigclassType(TypeOfInstance(instances[n]))
    /\ \A i, j \in 1..Len(instances) :
          i # j => /\ TypeOfInstance(instances[i]) # TypeOfInstance(instances[j])
                   /\ TopKeys(TypeOfInstance(instances[i]))
                         \cap TopKeys(TypeOfInstance(instances[j])) = {}

GeneratedAsAsked(instances, override_existing) ==
    /\ (file # Absent /\ ~override_existing)
          => last'.out.kind = "FileExistsError" /\ file' = file
    /\ ((file = Absent \/ override_existing) /\ SeparateInstances(instances))
          => /\ last'.out.kind = "ok"
             /\ IsMapping(file')
             /\ Keys(file') = UNION {TopKeys(TypeOfInstance(instances[n])) :
                                        n \in 1..Len(instances)}
             /\ \A n \in 1..Len(instances) :
                   HoldsInstance(file', instances[n], TypeOfInstance(instances[n]))

C19_Step ==
    \A instances \in InstanceLists(MaxInstances), override_existing \in BOOLEAN :
       GenerateCall(instances, override_existing)
          => GeneratedAsAsked(instances, override_existing)

Lower(s) ==
    CASE s = "TRUE" -> "true"
      [] s = "Yes" -> "yes"
      [] OTHER -> s

\* a field whose optional-unwrapped declared type is bool and that has no
\* custom decoder
PlainBoolField(c, i) ==
    /\ Fields(c)[i].id \notin DOMAIN Class(c).field_deserialzers
    /\ UnwrapOptional(Fields(c)[i].type) = Ty("bool")

\* C21: a raw value that is not a boolean, read for a boolean field without
\* a custom decoder, decodes to true exactly when it is one of the strings
\* "true", "1", "yes" in any letter case, and to false otherwise.
C21_TruthyStrings ==
    (/\ codec.stage = "read"
     /\ PlainBoolField(codec.cls, codec.field)
     /\ Root(codec.raw).t # "bool")
       => codec.out =
             Ok(Leaf(BoolV(IF /\ Root(codec.raw).t = "str"
                              /\ Lower(Root(codec.raw).v) \in {"true", "1", "yes"}
                           THEN "True" ELSE "False")))

\* the members of a declared type that are not the null type
Concrete(declared) == SelectSeq(declared.args, LAMBDA a : a # "NoneType")

\* a union of exactly one concrete type and the null type
IsOptionalOfOne(declared) ==
    /\ declared.union
    /\ Len(declared.args) = 2
    /\ Len(Concrete(declared)) = 1

\* C22: unwrap_optional returns the concrete member of a union of exactly
\* one concrete type and the null type, and returns every other declared
\* type unchanged, unions of two or more concrete types included.
C22_UnwrapOptional ==
    codec.stage = "unwrapped"
       => codec.out = IF IsOptionalOfOne(codec.declared)
                      THEN Ty(Concrete(codec.declared)[1])
                      ELSE codec.declared

\* the decoder registered for field i of class c, "" when there is none
DecoderOf(c, i) ==
    IF Fields(c)[i].id \in DOMAIN Class(c).field_deserialzers
    THEN Class(c).field_deserialzers[Fields(c)[i].id]
    ELSE ""

\* the number of parameters of the given kinds in a signature
CountOf(params, kinds) == Cardinality({n \in 1..Len(params) : params[n] \in kinds})

\* the rule of the claim, read off the signature of the decoder
ExpectsParser(d) ==
    \/ ~DeserializerSignature(d).inspectable
    \/ CountOf(DeserializerSignature(d).params,
               {"POSITIONAL_ONLY", "POSITIONAL_OR_KEYWORD"}) >= 2
    \/ CountOf(DeserializerSignature(d).params, {"VAR_POSITIONAL"}) >= 1

\* C23: the custom decoder of a field is called with the raw value, and
\* with the parser as second argument exactly when its signature has two
\* or more positional parameters or *args, or cannot be inspected; a
\* decoder (value, **kwargs) is called with the raw value alone.
C23_WantsParser ==
    (codec.stage \in {"read", "decoded"} /\ DecoderOf(codec.cls, codec.field) # "")
       => /\ codec.call.fn = DecoderOf(codec.cls, codec.field)
          /\ codec.call.value = codec.raw
          /\ codec.call.parser = ExpectsParser(codec.call.fn)
          /\ codec.call.fn = "deserialize_num" => ~codec.call.parser

\* C23 witness: deserialize_num(value, **_) was called with "8x" alone and
\* returned 8
C23_Witness ==
    /\ codec.stage = "read"
    /\ codec.cls = "NumMetricsConfig"
    /\ codec.raw = Leaf(StrV("8x"))
    /\ codec.call = DeserializerCall("deserialize_num", Leaf(StrV("8x")), FALSE)
    /\ codec.out = Ok(Leaf(IntV("8")))

\* the schemas of args that were not registered before the call and are not
\* top-level
NewSections(args) ==
    {c \in Range(args) : /\ IsConfigclassType(c)
                         /\ ~Registered(c, configs)
                         /\ ~ApplyConfig(c).top_level}

\* add() touches neither the file nor the document, and no configs when it
\* raises
AddFrame ==
    /\ file' = file
    /\ reads' = reads
    /\ writes' = writes
    /\ document' = document
    /\ last'.out.kind # "ok" => configs' = configs

MissingSection(c) ==
    Raise("KeyError", "missing_section", c, ApplyConfig(c).name)

C24_StepAsStated ==
    \A args \in ArgLists(MaxAddArgs) :
       Add(args)
          => /\ AddFrame
             /\ (~existed /\ last'.out.kind = "ok")
                   => \A c \in NewSections(args) :
                         /\ ~HasKey(document', ApplyConfig(c).name)
                         /\ Get(c, configs', document') = MissingSection(c)

\* C24 (as stated): add() leaves the file, the read and write counts and
\* the document unchanged, and configs too when it raises; and after
\* default synthesis an added schema that is not top-level has no section,
\* so that get() on it raises the missing-section error.
C24_AsStated == [][C24_StepAsStated]_vars

C24_Step ==
    \A args \in ArgLists(MaxAddArgs) :
       Add(args)
          => /\ AddFrame
             /\ last'.out.kind = "ok"
                   => \A c \in NewSections(args) :
                         Get(c, configs', document')
                            = IF HasKey(document, ApplyConfig(c).name)
                              THEN ParseConfig(c, Sub(document, ApplyConfig(c).name),
                                               configs', document)
                              ELSE MissingSection(c)

\* C24 (amended): add() leaves the file, the read and write counts and the
\* document unchanged, and configs too when it raises; afterwards get() on
\* an added schema that is not top-level raises the missing-section error
\* when the document held before the call has no key equal to the schema's
\* name, and otherwise decodes what that key holds.
C24_AddFrame == [][C24_Step]_vars

\* C24 witness: DefaultNested was added to a parser constructed with
\* ParentDefaultConfig alone on an absent file; the synthesized document
\* is unchanged and get(DefaultNested) raises the missing-section error
C24_Witness ==
    /\ phase = "ready"
    /\ ~existed
    /\ added
    /\ last.op = "add"
    /\ last.out.kind = "ok"
    /\ configs = <<"ParentDefaultConfig", "DefaultNested">>
    /\ document = Build(MapV, ("nested" :> Build(MapV, ("value" :> Leaf(StrV("value"))))))
    /\ writes = 1
    /\ Get("DefaultNested", configs, document) = MissingSection("DefaultNested")

\* the schemas the fields of c lead to: through fields without an explicit
\* default when synthesizing, through every field when decoding
NestedOf(graph, c, op) ==
    {graph[c][i].type : i \in {j \in 1..Len(graph[c]) :
        /\ graph[c][j].type \in Schemas
        /\ op = "synthesize" => graph[c][j].dkind # "value"}}

RECURSIVE ReachedIn(_, _, _, _)

\* the schemas reached from those of S in one to n steps
ReachedIn(graph, S, op, n) ==
    IF n = 0 THEN {}
    ELSE UNION {NestedOf(graph, c, op) : c \in S}
            \cup ReachedIn(graph, UNION {NestedOf(graph, c, op) : c \in S}, op, n - 1)

\* some schema leads back to itself
HasCycle(graph, op) ==
    \E c \in Schemas : c \in ReachedIn(graph, {c}, op, Cardinality(Schemas))

RECURSIVE Height(_, _, _, _)

\* the number of schemas on the longest path from c, followed for at most n
\* steps
Height(graph, c, op, n) ==
    IF n = 0 \/ NestedOf(graph, c, op) = {} THEN 1
    ELSE 1 + Last({Height(graph, d, op, n - 1) : d \in NestedOf(graph, c, op)})

\* the number of levels of a document: one more than its longest key path
Levels(doc) == 1 + Last({Len(path) : path \in DOMAIN doc})

\* the schema and the document the running operation was called with
RootOf(r) == IF r.stack = <<>> THEN "" ELSE r.stack[1].cls

\* the deepest stack of calls so far is within the depth of the schema graph
\* below the called schema, and when decoding within the levels of the
\* document
DepthBounded ==
    /\ (codec.op = "synthesize" /\ ~HasCycle(codec.graph, "synthesize"))
          => /\ codec.depth <= Cardinality(Schemas)
             /\ codec.stage = "running"
                   => codec.depth <= Height(codec.graph, RootOf(codec), "synthesize",
                                            Cardinality(Schemas))
    /\ codec.op = "get"
          => /\ codec.stage = "running" => codec.depth <= Levels(codec.stack[1].data)
             /\ (codec.stage = "running" /\ ~HasCycle(codec.graph, "get"))
                   => codec.depth <= Height(codec.graph, RootOf(codec), "get",
                                            Cardinality(Schemas))
             /\ codec.depth <= MaxDocDepth + 1

\* the operation is over, and not because the recursion limit was reached
Terminated ==
    /\ codec.stage = "done"
    /\ codec.out # "RecursionError"
    /\ codec.op = "synthesize" => codec.out = "ok"

\* C25: default synthesis over schemas without a cycle of nested-schema
\* fields that all lack an explicit default ends with its result, get()
\* without custom decoders ends on every document, and the stack of
\* recursive calls of both never exceeds the depth of the schema graph
\* (for get(), of the document when the graph has a cycle).
C25_Terminates ==
    /\ []DepthBounded
    /\ <>(Terminated \/ (codec.op = "synthesize" /\ HasCycle(codec.graph, "synthesize")))

\* C25 witness: synthesis for A, whose field f1 of type B has no default,
\* while B's field of type A has an explicit default, ended two calls deep
C25_Witness ==
    /\ codec.stage = "done"
    /\ codec.op = "synthesize"
    /\ codec.out = "ok"
    /\ codec.graph["A"][1] = GraphField("B", "missing")
    /\ codec.graph["B"][1] = GraphField("A", "value")
    /\ codec.depth = 2
====
